---------------------------- MODULE Spec2Model ----------------------------
(***************************************************************************)
(* A model of Freedify's audio delivery pipeline:                          *)
(*   - the content cache            (src/app/cache.py)                     *)
(*   - the resolver fetch_flac      (src/app/audio_service.py)             *)
(*   - the stream proxy stream_audio (src/app/main.py)                     *)
(*   - the downloads, the encoder and the tagger                           *)
(*                                  (src/app/audio_service.py)             *)
(*   - the batch download download_batch (src/app/main.py)                 *)
(* Strings are sequences of one-character strings, so that str.replace,    *)
(* str.startswith and len are computed as Python computes them.            *)
(***************************************************************************)
EXTENDS Integers, Sequences, FiniteSets, TLC

VARIABLES
    os_name,        \* "posix" or "nt": the platform the process runs on
    keyA, keyB,     \* two (isrc, format) arguments of get_cache_path
    pathA, pathB,   \* the file names get_cache_path returned for them, or NoPath
    fs,             \* the cache directory: file name -> [present, data, atime]
    now,            \* time.time()
    ttl_seconds,    \* CACHE_TTL_HOURS * 3600
    max_bytes,      \* MAX_CACHE_SIZE_MB * 1024 * 1024
    writer,         \* the running cache_file call
    reader,         \* the running get_cached_file call
    sweep,          \* the running or last cleanup_cache call
    sinceWrite,     \* the completed cache_file call no sweep or write has followed yet
    fetch,          \* the running or last fetch_flac call
    TIDAL_APIS,     \* the list of Tidal mirrors
    working_api,    \* AudioService.working_api: the mirror that answered last
    apis_updated,   \* AudioService._apis_updated
    selector,       \* the mirrors the last get_tidal_download_url call asked, and who answered
    req,            \* the running or last stream_audio request
    dl,             \* the running or last get_download_audio / get_audio_stream call
    encoder,        \* FFMPEG_PATH: whether the binary is there, and every start of it
    lookup,         \* the running or last cache-hit branch of stream_audio
    batch,          \* the running or last download_batch request
    mirror,         \* concurrent get_tidal_download_url calls and what they did
    periodic,       \* the periodic_cleanup task
    resolved,       \* _stream_url_cache and the threads in _get_stream_url
    tmp             \* the temporary directory and the calls that use it

pathVars == <<os_name, keyA, keyB, pathA, pathB>>

cacheVars == <<fs, now, ttl_seconds, max_bytes, writer, reader, sweep, sinceWrite>>

resolveVars == <<fetch, TIDAL_APIS, working_api, apis_updated, selector>>

streamVars == <<req>>

downloadVars == <<dl, encoder>>

\* the endpoints' state besides the stream proxy's
lookupVars == <<lookup>>

batchVars == <<batch>>

endpointVars == <<downloadVars, lookupVars, batchVars>>

\* the state of the services that run beside the requests
serviceVars == <<mirror, periodic, resolved, tmp>>

besidesMirror == <<periodic, resolved, tmp>>

besidesPeriodic == <<mirror, resolved, tmp>>

besidesResolved == <<mirror, periodic, tmp>>

besidesTmp == <<mirror, periodic, resolved>>


vars == <<pathVars, cacheVars, resolveVars, streamVars, endpointVars, serviceVars>>

---------------------------------------------------------------------------
(* Bounds of the model *)

\* longest identifier enumerated character by character
MaxIdLen == 2

\* longest content of a cache file, in bytes
MaxDataLen == 1

\* the clock runs from 0 to MaxTime
MaxTime == 2

\* the configured TTL is drawn from 0..MaxTtl, the size budget from 0..MaxBudget
MaxTtl == 1
MaxBudget == 1

\* most chunks of an upstream body
MaxChunks == 2

(* Program constants *)

\* cache.py:39  len(isrc) > 100
HashThreshold == 100

\* hashlib.md5(...).hexdigest() has 32 hexadecimal digits
DigestLen == 32

---------------------------------------------------------------------------
(* Strings *)

Chars == {"a", "_", ":", "/", "\\", "."}

LINK_PREFIX == <<"L", "I", "N", "K", ":">>

\* str.startswith
StartsWith(s, p) ==
    /\ Len(s) >= Len(p)
    /\ \A i \in 1..Len(p) : s[i] = p[i]

\* str.replace(old, new) for a one-character old and new
Replace(s, old, new) ==
    [i \in 1..Len(s) |-> IF s[i] = old THEN new ELSE s[i]]

RECURSIVE StringsUpTo(_)
StringsUpTo(n) ==
    IF n = 0 THEN {<<>>}
    ELSE LET shorter == StringsUpTo(n - 1)
         IN  shorter \cup {Append(s, c) : s \in {t \in shorter : Len(t) = n - 1}, c \in Chars}

\* the identifiers of the model: every short string, LINK:-prefixed ones,
\* identifiers longer than the hashing threshold, and two with a ".." component
ShortIds == StringsUpTo(MaxIdLen)
LinkIds == {LINK_PREFIX \o s : s \in StringsUpTo(1)}
LongIds == {[i \in 1..(HashThreshold + 1) |-> IF i = 1 THEN c ELSE "a"] : c \in {"a", "/"}}
TraversalIds == {<<".", ".", "/", "a">>, <<".", ".", "\\", "a">>}
Ids == ShortIds \cup LinkIds \cup LongIds \cup TraversalIds

\* the formats the callers of the cache pass (audio_service.py:902, main.py:529)
Formats == {<<"m", "p", "3">>, <<"f", "l", "a", "c">>}

---------------------------------------------------------------------------
(* hashlib.md5(isrc.encode()).hexdigest(): a fixed-length lowercase hex     *)
(* digest.  The 128-bit digest is modelled by a 16-bit polynomial digest   *)
(* of the characters, left-padded with zeros to 32 hex digits.             *)

CharCode(c) ==
    CASE c = "a" -> 97 [] c = "_" -> 95 [] c = ":" -> 58 [] c = "/" -> 47
      [] c = "\\" -> 92 [] c = "." -> 46 [] c = "L" -> 76 [] c = "I" -> 73
      [] c = "N" -> 78 [] c = "K" -> 75 [] OTHER -> 0

HexDigit(n) ==
    <<"0", "1", "2", "3", "4", "5", "6", "7", "8", "9", "a", "b", "c", "d", "e", "f">>[n + 1]

\* 31^i mod 4096, by halving the exponent
RECURSIVE Pow31(_)
Pow31(i) ==
    IF i = 0 THEN 1
    ELSE IF i = 1 THEN 31
    ELSE (Pow31(i \div 2) * Pow31(i - (i \div 2))) % 4096

\* the sum of CharCode(s[i]) * Pow31(i) over lo..hi, mod 65536, by halving

RECURSIVE Digest16(_, _, _)
Digest16(s, lo, hi) ==
    IF lo > hi THEN 0
    ELSE IF lo = hi THEN (CharCode(s[lo]) * Pow31(lo)) % 65536
    ELSE LET mid == (lo + hi) \div 2
         IN  (Digest16(s, lo, mid) + Digest16(s, mid + 1, hi)) % 65536

md5_hexdigest(s) ==
    LET h == (7 + Digest16(s, 1, Len(s))) % 65536
    IN  [i \in 1..(DigestLen - 4) |-> "0"]
        \o <<HexDigit(h \div 4096), HexDigit((h \div 256) % 16),
             HexDigit((h \div 16) % 16), HexDigit(h % 16)>>

---------------------------------------------------------------------------
(* cache.py get_cache_path: the name of the cache file inside CACHE_DIR *)

safe_name(isrc) ==
    IF Len(isrc) > HashThreshold \/ StartsWith(isrc, LINK_PREFIX)
    THEN md5_hexdigest(isrc)
    ELSE Replace(Replace(isrc, "/", "_"), ":", "_")

\* f"{safe_name}.{format}", joined to CACHE_DIR by pathlib
get_cache_path(isrc, format) == safe_name(isrc) \o <<".">> \o format

(* pathlib's CACHE_DIR / name: the name is split at the platform's         *)
(* separators; "." and empty components are dropped, ".." climbs.          *)
Separators == IF os_name = "nt" THEN {"/", "\\"} ELSE {"/"}

\* the positions where a component of the name starts
PartStarts(name) ==
    {i \in 1..Len(name) :
        /\ name[i] \notin Separators
        /\ (i = 1 \/ name[i - 1] \in Separators)}

\* the component that starts at position i
PartAt(name, i) ==
    LET stop == {j \in i..Len(name) : name[j] \in Separators}
        last == IF stop = {} THEN Len(name)
                ELSE (CHOOSE j \in stop : \A k \in stop : j <= k) - 1
    IN  SubSeq(name, i, last)

PathParts(name) ==
    {i \in PartStarts(name) : PartAt(name, i) # <<".">>}

\* a name that starts with a separator is anchored at the root, not at CACHE_DIR
IsRooted(name) == name # <<>> /\ name[1] \in Separators

\* the path CACHE_DIR / name names a file directly inside CACHE_DIR
IsDirectChild(name) ==
    /\ ~IsRooted(name)
    /\ Cardinality(PathParts(name)) = 1
    /\ \A i \in PathParts(name) : PartAt(name, i) # <<".", ".">>

\* how deep below CACHE_DIR the path is after the component that starts at i
DepthAfter(name, i) ==
    LET upto == {j \in PathParts(name) : j <= i}
        ups  == {j \in upto : PartAt(name, j) = <<".", ".">>}
    IN  Cardinality(upto \ ups) - Cardinality(ups)

\* the path CACHE_DIR / name stays inside CACHE_DIR
InsideCacheDir(name) ==
    /\ ~IsRooted(name)
    /\ \A i \in PathParts(name) : DepthAfter(name, i) >= 0

NoPath == <<"<none>">>

---------------------------------------------------------------------------
(* The content cache (cache.py): files of CACHE_DIR *)

Bytes == {1}

RECURSIVE DataUpTo(_)
DataUpTo(n) ==
    IF n = 0 THEN {<<>>}
    ELSE LET shorter == DataUpTo(n - 1)
         IN  shorter \cup {Append(d, b) : d \in {t \in shorter : Len(t) = n - 1}, b \in Bytes}

Datas == DataUpTo(MaxDataLen)

mp3 == <<"m", "p", "3">>

\* the keys the cache operations of the model are called with
CacheKeys == {<<"a">>, <<"a", ":">>} \X {mp3}

cache_path(key) == get_cache_path(key[1], key[2])

CachePaths == {cache_path(k) : k \in CacheKeys}

NoFile == [present |-> FALSE, data |-> <<>>, atime |-> 0]

\* f.stat().st_size
st_size(f) == Len(f.data)

RECURSIVE SumSizes(_, _)
SumSizes(dir, paths) ==
    IF paths = {} THEN 0
    ELSE LET p == CHOOSE q \in paths : TRUE
         IN  st_size(dir[p]) + SumSizes(dir, paths \ {p})

\* total size of the files in the cache directory
TotalSize(dir) == SumSizes(dir, {p \in CachePaths : dir[p].present})

NoResult == [kind |-> "none", data |-> <<>>]

DefaultKey == <<<<"a">>, mp3>>

IdleWriter == [pc |-> "idle", key |-> DefaultKey, data |-> <<>>, result |-> "none"]
IdleReader == [pc |-> "idle", key |-> DefaultKey, result |-> NoResult]
NoWrite == [state |-> "none", key |-> DefaultKey, data |-> <<>>]
IdleSweep ==
    [pc |-> "idle", now |-> 0, files |-> <<>>, log |-> <<>>, total_size |-> 0,
     listedTotal |-> 0, diskTotal |-> 0, failed |-> FALSE, disturbed |-> FALSE]

(* What a call returned is kept until the next step of any operation. *)
RestWriter == IF writer.pc = "idle" THEN IdleWriter ELSE writer
RestReader == IF reader.pc = "idle" THEN IdleReader ELSE reader
RestSweep == IF sweep.pc = "done" THEN IdleSweep ELSE sweep

\* an open that keeps the old content (mode 'r+b' instead of 'wb')
OpenKeepingContent(dir, p, t) ==
    [dir EXCEPT ![p] = [present |-> TRUE, data |-> dir[p].data,
                        atime |-> IF dir[p].present THEN dir[p].atime ELSE t]]

(* cache_file: aiofiles.open(cache_path, 'wb') creates or truncates the    *)
(* file; an OSError makes cache_file return False.                         *)
OpenForWrite(dir, p, t) ==
    [dir EXCEPT ![p] = [present |-> TRUE, data |-> <<>>,
                        atime |-> IF dir[p].present THEN dir[p].atime ELSE t]]

\* f.write(bytes) on a handle positioned at offset 0
WriteAtStart(dir, p, bytes) ==
    [dir EXCEPT ![p].data = bytes \o SubSeq(@, Len(bytes) + 1, Len(@))]

cache_file_open ==
    /\ writer.pc = "idle"
    /\ \E k \in CacheKeys, d \in Datas, ok \in BOOLEAN :
         /\ IF ok
            THEN /\ fs' = OpenForWrite(fs, cache_path(k), now)
                 /\ writer' = [pc |-> "opened", key |-> k, data |-> d, result |-> "none"]
                 /\ sinceWrite' = [NoWrite EXCEPT !.state = "writing"]
            ELSE /\ fs' = fs
                 /\ writer' = [IdleWriter EXCEPT !.result = "false"]
                 /\ sinceWrite' = NoWrite
    /\ sweep' = IF sweep.pc = "scanned" THEN [sweep EXCEPT !.disturbed = TRUE] ELSE RestSweep
    /\ reader' = RestReader
    /\ UNCHANGED <<now, ttl_seconds, max_bytes, pathVars, resolveVars, streamVars, endpointVars, serviceVars>>

(* cache_file: await f.write(data), then close.  n bytes reach the file    *)
(* before an OSError; n = len(data) is the call that returns True.  A file *)
(* unlinked since it was opened is written without reappearing.            *)
cache_file_write ==
    /\ writer.pc = "opened"
    /\ \E n \in 0..Len(writer.data) :
         LET p == cache_path(writer.key)
             done == n = Len(writer.data)
         IN  /\ fs' = IF fs[p].present
                      THEN WriteAtStart(fs, p, SubSeq(writer.data, 1, n))
                      ELSE fs
             /\ writer' = [IdleWriter EXCEPT !.result = IF done THEN "true" ELSE "false"]
             /\ sinceWrite' =
                    IF done /\ sinceWrite.state = "writing"
                    THEN [state |-> "written", key |-> writer.key, data |-> writer.data]
                    ELSE NoWrite
    /\ sweep' = IF sweep.pc = "scanned" THEN [sweep EXCEPT !.disturbed = TRUE] ELSE RestSweep
    /\ reader' = RestReader
    /\ UNCHANGED <<now, ttl_seconds, max_bytes, pathVars, resolveVars, streamVars, endpointVars, serviceVars>>

(* get_cached_file: cache_path.exists(), then cache_path.touch().  Both    *)
(* run on the event loop, so not inside a sweep.                           *)
get_cached_file_touch ==
    /\ reader.pc = "idle"
    /\ sweep.pc # "scanned"
    /\ \E k \in CacheKeys :
         LET p == cache_path(k)
         IN  IF fs[p].present
             THEN /\ fs' = [fs EXCEPT ![p].atime = now]
                  /\ reader' = [pc |-> "touched", key |-> k, result |-> NoResult]
             ELSE /\ fs' = fs
                  /\ reader' = [pc |-> "idle", key |-> k,
                                result |-> [kind |-> "miss", data |-> <<>>]]
    /\ writer' = RestWriter
    /\ sweep' = RestSweep
    /\ UNCHANGED <<now, ttl_seconds, max_bytes, sinceWrite, pathVars, resolveVars, streamVars, endpointVars, serviceVars>>

(* get_cached_file: aiofiles.open(cache_path, 'rb') and f.read(); any      *)
(* exception (the file is gone, an OSError) is logged and None returned.   *)
get_cached_file_read ==
    /\ reader.pc = "touched"
    /\ \E ok \in BOOLEAN :
         LET p == cache_path(reader.key)
         IN  reader' = [reader EXCEPT
                 !.pc = "idle",
                 !.result = IF ~fs[p].present THEN [kind |-> "gone", data |-> <<>>]
                            ELSE IF ~ok THEN [kind |-> "error", data |-> <<>>]
                            ELSE [kind |-> "hit", data |-> fs[p].data]]
    /\ writer' = RestWriter
    /\ sweep' = RestSweep
    /\ UNCHANGED <<fs, now, ttl_seconds, max_bytes, sinceWrite, pathVars, resolveVars, streamVars, endpointVars, serviceVars>>

\* time passes
Tick ==
    /\ now < MaxTime
    /\ now' = now + 1
    /\ writer' = RestWriter
    /\ reader' = RestReader
    /\ sweep' = RestSweep
    /\ UNCHANGED <<fs, ttl_seconds, max_bytes, sinceWrite, pathVars, resolveVars, streamVars, endpointVars, serviceVars>>

---------------------------------------------------------------------------
(* cleanup_cache *)

\* the orders in which CACHE_DIR.iterdir() may list the files
Listings(paths) ==
    {l \in [1..Cardinality(paths) -> paths] : \A i, j \in DOMAIN l : l[i] = l[j] => i = j}

\* cache.py:95-103: one {'path', 'size', 'atime'} per listed file
StatFiles(dir, listing) ==
    [i \in DOMAIN listing |->
        [path |-> listing[i], size |-> st_size(dir[listing[i]]), atime |-> dir[listing[i]].atime]]

\* path.unlink() raises when the file is gone or the system refuses
unlink_ok(dir, path, failing) == dir[path].present /\ path \notin failing

Unlink(dir, path) == [dir EXCEPT ![path] = NoFile]

\* a TTL test that also expires the entries of exactly the TTL's age
IsExpiredAtTtl(t, atime, ttl) == t - atime >= ttl

\* cache.py:107
IsExpired(t, atime, ttl) == t - atime > ttl

\* list.remove(file_info)
RemoveAt(s, i) == SubSeq(s, 1, i - 1) \o SubSeq(s, i + 1, Len(s))

IndexOf(s, x) == CHOOSE i \in 1..Len(s) : s[i] = x

(* cache.py:105-113: remove the files older than the TTL.  st is           *)
(* [dir, files, total, log, failed]; listing is the copy files[:]          *)
RECURSIVE TtlPhase(_, _, _, _, _)
TtlPhase(listing, i, st, t, failing) ==
    IF i > Len(listing) THEN st
    ELSE LET f == listing[i]
         IN  IF ~IsExpired(t, f.atime, ttl_seconds)
             THEN TtlPhase(listing, i + 1, st, t, failing)
             ELSE IF unlink_ok(st.dir, f.path, failing)
             THEN TtlPhase(listing, i + 1,
                      [st EXCEPT !.dir = Unlink(st.dir, f.path),
                                 !.files = RemoveAt(st.files, IndexOf(st.files, f)),
                                 !.log = Append(st.log,
                                     [path |-> f.path, phase |-> "ttl", atime |-> f.atime,
                                      size |-> f.size, before |-> 0, ok |-> TRUE])],
                      t, failing)
             ELSE TtlPhase(listing, i + 1,
                      [st EXCEPT !.failed = TRUE,
                                 !.log = Append(st.log,
                                     [path |-> f.path, phase |-> "ttl", atime |-> f.atime,
                                      size |-> f.size, before |-> 0, ok |-> FALSE])],
                      t, failing)

\* list.sort(key=atime) is stable: x goes behind every entry that is not younger
InsertByAtime(s, x) ==
    LET k == Cardinality({i \in 1..Len(s) : s[i].atime <= x.atime})
    IN  SubSeq(s, 1, k) \o <<x>> \o SubSeq(s, k + 1, Len(s))

\* a sweep that leaves the files in the order of the listing
ListedOrder(files, n) == files

RECURSIVE SortByAtime(_, _)
SortByAtime(files, n) ==
    IF n = 0 THEN <<>> ELSE InsertByAtime(SortByAtime(files, n - 1), files[n])

RECURSIVE SumListed(_)
SumListed(files) == IF files = <<>> THEN 0 ELSE Head(files).size + SumListed(Tail(files))

\* a size loop that stops one byte above the budget
OverBudgetByTwo(total, files) == total > max_bytes + 1 /\ files # <<>>

\* cache.py:119  while total_size > max_bytes and files
OverBudget(total, files) == total > max_bytes /\ files # <<>>

(* cache.py:119-126: pop the oldest file while the total is over budget;   *)
(* total_size is reduced only when the unlink succeeded.                   *)
RECURSIVE SizePhase(_, _)
SizePhase(st, failing) ==
    IF ~OverBudget(st.total, st.files) THEN st
    ELSE LET oldest == Head(st.files)
         IN  IF unlink_ok(st.dir, oldest.path, failing)
             THEN SizePhase(
                      [st EXCEPT !.dir = Unlink(st.dir, oldest.path),
                                 !.files = Tail(st.files),
                                 !.total = st.total - oldest.size,
                                 !.log = Append(st.log,
                                     [path |-> oldest.path, phase |-> "size",
                                      atime |-> oldest.atime, size |-> oldest.size,
                                      before |-> st.total, ok |-> TRUE])],
                      failing)
             ELSE SizePhase(
                      [st EXCEPT !.files = Tail(st.files),
                                 !.failed = TRUE,
                                 !.log = Append(st.log,
                                     [path |-> oldest.path, phase |-> "size",
                                      atime |-> oldest.atime, size |-> oldest.size,
                                      before |-> st.total, ok |-> FALSE])],
                      failing)

\* cache.py:105-128 on the listed files
RemovePhases(dir, files, t, failing) ==
    LET afterTtl == TtlPhase(files, 1,
                        [dir |-> dir, files |-> files, total |-> 0, log |-> <<>>,
                         failed |-> FALSE], t, failing)
        sorted == SortByAtime(afterTtl.files, Len(afterTtl.files))
    IN  SizePhase([afterTtl EXCEPT !.files = sorted, !.total = SumListed(sorted)], failing)

(* cleanup_cache, lines 90-103: take the time, list and stat the files.    *)
(* The coroutine never awaits, so only the file operations that run in     *)
(* aiofiles' worker threads can fall between this step and the next.       *)
cleanup_cache_scan ==
    /\ sweep.pc # "scanned"
    /\ \E listing \in Listings({p \in CachePaths : fs[p].present}) :
         sweep' = [IdleSweep EXCEPT !.pc = "scanned", !.now = now,
                                    !.files = StatFiles(fs, listing),
                                    !.listedTotal = SumListed(StatFiles(fs, listing))]
    /\ writer' = RestWriter
    /\ reader' = RestReader
    /\ UNCHANGED <<fs, now, ttl_seconds, max_bytes, sinceWrite, pathVars, resolveVars, streamVars, endpointVars, serviceVars>>

(* cleanup_cache, lines 105-128: the TTL phase and the size phase *)
cleanup_cache_remove ==
    /\ sweep.pc = "scanned"
    /\ \E failing \in SUBSET {sweep.files[i].path : i \in DOMAIN sweep.files} :
         LET end == RemovePhases(fs, sweep.files, sweep.now, failing)
         IN  /\ fs' = end.dir
             /\ sweep' = [sweep EXCEPT !.pc = "done", !.log = end.log,
                                       !.total_size = end.total,
                                       !.diskTotal = TotalSize(end.dir),
                                       !.failed = end.failed]
    /\ sinceWrite' = NoWrite
    /\ reader' = RestReader
    /\ writer' = RestWriter
    /\ UNCHANGED <<now, ttl_seconds, max_bytes, pathVars, resolveVars, streamVars, endpointVars, serviceVars>>

CacheInit ==
    /\ fs = [p \in CachePaths |-> NoFile]
    /\ now = 0
    /\ ttl_seconds \in 0..MaxTtl
    /\ max_bytes \in 0..MaxBudget
    /\ writer = IdleWriter
    /\ reader = IdleReader
    /\ sweep = IdleSweep
    /\ sinceWrite = NoWrite

CacheNext ==
    \/ cache_file_open
    \/ cache_file_write
    \/ get_cached_file_touch
    \/ get_cached_file_read
    \/ cleanup_cache_scan
    \/ cleanup_cache_remove
    \/ Tick

---------------------------------------------------------------------------
(* The resolver (audio_service.py): AudioService.fetch_flac *)

DZ_PREFIX == <<"d", "z", "_">>
QUERY_PREFIX == <<"q", "u", "e", "r", "y", ":">>
DAB_PREFIX == <<"d", "a", "b", "_">>
ISRC_PREFIX == <<"i", "s", "r", "c", ":">>

\* str.replace(old, new) for a non-empty old
RECURSIVE ReplaceStr(_, _, _)
ReplaceStr(s, old, new) ==
    IF Len(s) < Len(old) THEN s
    ELSE IF StartsWith(s, old)
    THEN new \o ReplaceStr(SubSeq(s, Len(old) + 1, Len(s)), old, new)
    ELSE <<Head(s)>> \o ReplaceStr(Tail(s), old, new)

\* an ISRC
PlainIsrc == <<"I">>

\* the track references fetch_flac is called with: an ISRC, a Deezer id,
\* a ListenBrainz query and a Dab id
ResolveRefs ==
    {PlainIsrc, DZ_PREFIX \o <<"1">>, QUERY_PREFIX \o <<"t">>, DAB_PREFIX \o <<"1">>}

Queries == {<<>>, <<"t">>}

\* the Tidal mirrors and the lists the status server may announce
Mirrors == {"m1", "m2"}
DefaultApis == <<"m1", "m2">>
ApiLists == {<<"m1", "m2">>, <<"m2", "m1">>, <<"m2">>, <<"m2", "m1", "m2">>}
NoApi == "None"

(* What an HTTP call can end in without an answer the callee accepts: a    *)
(* timeout, a status other than 200, a body that is not the expected JSON. *)
Failures == {"timeout", "non200", "malformed"}

(* deezer_info: None, a track object, a track object without "isrc", a     *)
(* track object with wrongly typed fields ("artist": null, "album": null), *)
(* an {"error": ...} object, or a JSON array instead of an object.         *)
DeezerPayloads == {"track", "track_no_isrc", "track_bad_fields", "error", "list"}

\* "if deezer_info"
Truthy(info) == info # "None"

\* '"error" in deezer_info'
HasError(info) == info = "error"

NoFetchResult == [kind |-> "none", url_from |-> "", meta_from |-> "", line |-> 0]

IdleFetch ==
    [pc |-> "idle", ref |-> PlainIsrc, isrc |-> PlainIsrc, query |-> <<>>,
     deezer_info |-> "None", dab_id |-> "None", dab_track |-> "None",
     tidal_track |-> "None", calls |-> <<>>, result |-> NoFetchResult]

(* The calls a fetch_flac call has made: the provider, the call, and how   *)
(* it ended ("ok": with a track or a url, "timeout", or "failed": any      *)
(* other failure, a malformed answer included).                            *)
Accepted == {"track", "track_no_isrc", "track_bad_fields", "url"}

Called(r, provider, step, out) ==
    [r EXCEPT !.calls = Append(@,
        [provider |-> provider, step |-> step,
         out |-> IF out \in Accepted THEN "ok"
                 ELSE IF out = "timeout" THEN "timeout" ELSE "failed"])]

\* return (url, metadata): where the url and the metadata come from
Returned(r, provider, meta) ==
    [r EXCEPT !.pc = "done",
              !.result = [kind |-> "returned", url_from |-> provider, meta_from |-> meta,
                          line |-> 0]]

\* an exception leaves fetch_flac at the given line
Raised(r, line) ==
    [r EXCEPT !.pc = "done",
              !.result = [NoFetchResult EXCEPT !.kind = "raised", !.line = line]]

\* lines 860-861: return None
ReturnedNone(r) ==
    [r EXCEPT !.pc = "done", !.result = [NoFetchResult EXCEPT !.kind = "None"]]

(* lines 831-858 up to the download call: a deezer_info that is not an     *)
(* object has no .get (line 832)                                           *)
DeezerCheck(r) ==
    IF Truthy(r.deezer_info) /\ ~HasError(r.deezer_info)
    THEN IF r.deezer_info = "list" THEN Raised(r, 832)
         ELSE [r EXCEPT !.pc = "deezer_download"]
    ELSE ReturnedNone(r)

\* lines 804-829: which lookup fills a missing deezer_info
DeezerLookupBranch(r) ==
    IF Truthy(r.deezer_info) THEN "cached"
    ELSE IF StartsWith(r.isrc, DZ_PREFIX) THEN "by_id"
    ELSE IF r.isrc # <<>> THEN "by_isrc"
    ELSE IF r.query # <<>> THEN "by_query"
    ELSE "none"

EnterDeezer(r) ==
    IF DeezerLookupBranch(r) \in {"by_id", "by_isrc", "by_query"}
    THEN [r EXCEPT !.pc = "deezer_lookup"]
    ELSE DeezerCheck(r)

\* a resolver that goes from Dab straight to Deezer
AfterDabSkippingTidal(r) == EnterDeezer(r)

\* line 770: Tidal is tried unless the reference is still a Deezer id
AfterDab(r) ==
    IF ~StartsWith(r.isrc, DZ_PREFIX) THEN [r EXCEPT !.pc = "tidal_search"]
    ELSE EnterDeezer(r)

\* lines 685-688
QueryPrefix(r) ==
    IF StartsWith(r.isrc, QUERY_PREFIX)
    THEN [r EXCEPT !.query = ReplaceStr(r.isrc, QUERY_PREFIX, <<>>), !.isrc = <<>>]
    ELSE r

\* lines 704-707
DabQuery(r) ==
    IF r.query # <<>> THEN r.query
    ELSE IF r.isrc # <<>> /\ ~StartsWith(r.isrc, DZ_PREFIX) THEN ISRC_PREFIX \o r.isrc
    ELSE <<>>

\* lines 692-709: which Dab call is made first, if any
EnterDab(r) ==
    IF StartsWith(r.isrc, DAB_PREFIX) THEN [r EXCEPT !.pc = "dab_get_track", !.dab_id = "id"]
    ELSE IF DabQuery(r) # <<>> THEN [r EXCEPT !.pc = "dab_search"]
    ELSE AfterDab(r)

(* fetch_flac(isrc, query, hires) is called; hires only selects the        *)
(* quality asked of Dab (line 720)                                         *)
fetch_flac_call ==
    /\ fetch.pc \in {"idle", "done"}
    /\ \E ref \in ResolveRefs, q \in Queries :
         LET r == [IdleFetch EXCEPT !.ref = ref, !.isrc = ref, !.query = q]
         IN  fetch' = IF StartsWith(ref, DZ_PREFIX)
                      THEN [r EXCEPT !.pc = "dz_lookup"]
                      ELSE EnterDab(QueryPrefix(r))
    /\ UNCHANGED <<TIDAL_APIS, working_api, apis_updated, selector, pathVars, cacheVars, streamVars, endpointVars, serviceVars>>

(* lines 661-681: the Deezer catalogue is asked for the ISRC of a dz_ id.  *)
(* deezer_info is assigned before it is inspected, and every exception is  *)
(* caught.                                                                 *)
DzLookup(r, out) ==
    IF out \in Failures THEN r
    ELSE LET got == [r EXCEPT !.deezer_info = out]
         IN  IF out = "track"
             THEN [got EXCEPT !.isrc = PlainIsrc,
                              !.query = IF r.query # <<>> THEN r.query ELSE <<"t", " ", "a">>]
             ELSE IF out = "track_bad_fields"
             THEN [got EXCEPT !.isrc = PlainIsrc]
             ELSE got

fetch_flac_dz_lookup ==
    /\ fetch.pc = "dz_lookup"
    /\ \E out \in DeezerPayloads \cup Failures :
         fetch' = EnterDab(QueryPrefix(DzLookup(
                      Called(fetch, "deezer", "dz_lookup", out), out)))
    /\ UNCHANGED <<TIDAL_APIS, working_api, apis_updated, selector, pathVars, cacheVars, streamVars, endpointVars, serviceVars>>

\* lines 698-702: dab_service.get_track returns the track or None
fetch_flac_dab_get_track ==
    /\ fetch.pc = "dab_get_track"
    /\ \E out \in {"track"} \cup Failures :
         fetch' = [Called(fetch, "dab", "get_track", out)
                      EXCEPT !.pc = "dab_stream",
                             !.dab_track = IF out = "track" THEN "track" ELSE "None"]
    /\ UNCHANGED <<TIDAL_APIS, working_api, apis_updated, selector, pathVars, cacheVars, streamVars, endpointVars, serviceVars>>

\* lines 709-716: dab_service.search_tracks returns a list, empty on any failure
fetch_flac_dab_search ==
    /\ fetch.pc = "dab_search"
    /\ \E out \in {"track", "empty"} \cup Failures :
         LET r == Called(fetch, "dab", "search", out)
         IN  fetch' = IF out = "track"
                      THEN [r EXCEPT !.pc = "dab_stream", !.dab_track = "track", !.dab_id = "id"]
                      ELSE AfterDab(r)
    /\ UNCHANGED <<TIDAL_APIS, working_api, apis_updated, selector, pathVars, cacheVars, streamVars, endpointVars, serviceVars>>

(* lines 718-767: dab_service.get_stream_url; a url that is not a string   *)
(* fails in stream_url[:40] inside the try block.                          *)
fetch_flac_dab_stream ==
    /\ fetch.pc = "dab_stream"
    /\ \E out \in {"url", "non_string", "empty"} \cup Failures :
         LET r == Called(fetch, "dab", "stream", out)
         IN  fetch' = IF out = "url"
                      THEN IF r.dab_track = "track"
                           THEN Returned(r, "dab", "dab_track")
                           ELSE Returned(r, "dab", "query")
                      ELSE AfterDab(r)
    /\ UNCHANGED <<TIDAL_APIS, working_api, apis_updated, selector, pathVars, cacheVars, streamVars, endpointVars, serviceVars>>

(* lines 772 and 311-342: search_tidal_by_isrc catches every exception; a  *)
(* track object with wrongly typed fields is returned as it came.          *)
fetch_flac_tidal_search ==
    /\ fetch.pc = "tidal_search"
    /\ \E out \in {"track", "track_bad_fields", "empty"} \cup Failures :
         LET found == out \in {"track", "track_bad_fields"}
             r == Called(fetch, "tidal", "search", out)
         IN  fetch' = IF found
                      THEN [r EXCEPT !.pc = "tidal_download", !.tidal_track = out]
                      ELSE EnterDeezer(r)
    /\ UNCHANGED <<TIDAL_APIS, working_api, apis_updated, selector, pathVars, cacheVars, streamVars, endpointVars, serviceVars>>

\* lines 565-569: the last working mirror first
\* a selector that asks the mirrors in the order of the list
ApisAsListed(apis, working) == apis

(* list.remove takes out the first occurrence only *)
ApisToTry(apis, working) ==
    IF working # NoApi /\ \E i \in DOMAIN apis : apis[i] = working
    THEN LET first == CHOOSE i \in DOMAIN apis :
                         apis[i] = working /\ \A j \in 1..(i - 1) : apis[j] # working
         IN  <<working>> \o SubSeq(apis, 1, first - 1) \o SubSeq(apis, first + 1, Len(apis))
    ELSE apis

(* What one mirror answers (lines 344-415): a url, a url field that is not *)
(* a string, an empty url field, or a failure.                             *)
MirrorOutcomes == {"url", "non_string", "empty_url", "fail"}

\* lines 571-575: the index of the first mirror with a truthy answer, or 0
FirstTruthy(apis, outs) ==
    LET hits == {i \in DOMAIN apis : outs[apis[i]] \in {"url", "non_string"}}
    IN  IF hits = {} THEN 0 ELSE CHOOSE i \in hits : \A j \in hits : i <= j

\* self.working_api after the loop: the last mirror asked that gave a url field
WorkingAfter(apis, outs, working) ==
    LET hit == FirstTruthy(apis, outs)
        asked == IF hit = 0 THEN Len(apis) ELSE hit
        gave == {i \in 1..asked : outs[apis[i]] # "fail"}
    IN  IF gave = {} THEN working
        ELSE apis[CHOOSE i \in gave : \A j \in gave : j <= i]

(* lines 775-795 and 559-578: get_tidal_download_url (the mirror list is   *)
(* refreshed once per process, then the mirrors are asked in turn), then   *)
(* the log line and the metadata, neither inside a try block.              *)
fetch_flac_tidal_download ==
    /\ fetch.pc = "tidal_download"
    /\ \E upd \in ApiLists \cup {<<>>}, outs \in [Mirrors -> MirrorOutcomes] :
         LET apis == IF ~apis_updated /\ upd # <<>> THEN upd ELSE TIDAL_APIS
             order == ApisToTry(apis, working_api)
             hit == FirstTruthy(order, outs)
             out == IF hit = 0 THEN "empty" ELSE outs[order[hit]]
             r == Called(fetch, "tidal", "download", out)
         IN  /\ TIDAL_APIS' = apis
             /\ apis_updated' = (apis_updated \/ upd # <<>>)
             /\ working_api' = WorkingAfter(order, outs, working_api)
             /\ selector' = [prev_winner |-> selector.last_winner,
                             last_winner |-> IF hit = 0 THEN NoApi ELSE order[hit],
                             tried |-> SubSeq(order, 1, IF hit = 0 THEN Len(order) ELSE hit)]
             /\ fetch' = IF hit = 0 THEN EnterDeezer(r)
                         ELSE IF out = "non_string" THEN Raised(r, 779)
                         ELSE IF r.tidal_track = "track_bad_fields" THEN Raised(r, 784)
                         ELSE Returned(r, "tidal", "tidal_track")
    /\ UNCHANGED <<pathVars, cacheVars, streamVars, endpointVars, serviceVars>>

(* lines 804-829: the three lookups.  By id the answer is stored as it     *)
(* came; by ISRC an {"error"} answer is dropped; by query a document that  *)
(* is not an object with a "data" list is dropped.                         *)
DeezerLookup(branch, out) ==
    IF out \in Failures THEN "None"
    ELSE IF branch = "by_id" THEN out
    ELSE IF branch = "by_isrc" THEN (IF out = "error" THEN "None" ELSE out)
    ELSE IF out \in {"error", "list"} THEN "None" ELSE out

fetch_flac_deezer_lookup ==
    /\ fetch.pc = "deezer_lookup"
    /\ \E out \in DeezerPayloads \cup Failures :
         LET info == DeezerLookup(DeezerLookupBranch(fetch), out)
             r == Called(fetch, "deezer", "lookup", out)
         IN  fetch' = DeezerCheck([r EXCEPT !.deezer_info = info])
    /\ UNCHANGED <<TIDAL_APIS, working_api, apis_updated, selector, pathVars, cacheVars, streamVars, endpointVars, serviceVars>>

(* lines 833-858 and 606-626: get_deezer_download_url, then the log line   *)
(* and the metadata, neither inside a try block.                           *)
fetch_flac_deezer_download ==
    /\ fetch.pc = "deezer_download"
    /\ \E out \in {"url", "non_string", "empty"} \cup Failures :
         LET r == Called(fetch, "deezer", "download", out)
         IN  fetch' = IF out = "non_string" THEN Raised(r, 836)
                      ELSE IF out # "url" THEN ReturnedNone(r)
                      ELSE IF r.deezer_info = "track_bad_fields" THEN Raised(r, 839)
                      ELSE Returned(r, "deezer", "deezer_info")
    /\ UNCHANGED <<TIDAL_APIS, working_api, apis_updated, selector, pathVars, cacheVars, streamVars, endpointVars, serviceVars>>

\* no get_tidal_download_url call yet
NoSelection == [prev_winner |-> NoApi, last_winner |-> NoApi, tried |-> <<>>]

ResolveInit ==
    /\ fetch = IdleFetch
    /\ TIDAL_APIS = DefaultApis
    /\ working_api = NoApi
    /\ apis_updated = FALSE
    /\ selector = NoSelection

ResolveNext ==
    \/ fetch_flac_call
    \/ fetch_flac_dz_lookup
    \/ fetch_flac_dab_get_track
    \/ fetch_flac_dab_search
    \/ fetch_flac_dab_stream
    \/ fetch_flac_tidal_search
    \/ fetch_flac_tidal_download
    \/ fetch_flac_deezer_lookup
    \/ fetch_flac_deezer_download

---------------------------------------------------------------------------
(* The stream proxy (main.py): stream_audio *)

\* dict.get(key) of a header that is not there
NoHeader == "<absent>"

\* the Range header of the inbound request
RangeValues == {NoHeader, "", "bytes=100-199"}

UpstreamKeys == {"Content-Range", "Content-Length", "Content-Type", "Last-Modified", "ETag"}

\* the answers of the upstream server: a status and its headers
UpstreamAnswers ==
    [status : {200, 206, 404},
     headers : {h \in [UpstreamKeys -> {NoHeader, "", "bytes 100-199/1000", "100", "audio/flac", "e"}] :
                   /\ h["Content-Range"] \in {NoHeader, "bytes 100-199/1000"}
                   /\ h["Content-Length"] \in {NoHeader, "100"}
                   /\ h["Content-Type"] \in {NoHeader, "", "audio/flac"}
                   /\ h["Last-Modified"] = NoHeader
                   /\ h["ETag"] \in {NoHeader, "e"}}]

NoAnswer == [status |-> 0, headers |-> [k \in UpstreamKeys |-> NoHeader]]

\* "if headers.get(key)"
HeaderSet(v) == v # NoHeader /\ v # ""

\* main.py:439-442, 563-565: req_headers
RequestHeaders(range) == IF HeaderSet(range) THEN range ELSE NoHeader

\* a proxy that forwards the length and the type only
ForwardedKeysWithoutRange(path) == {"Content-Length", "Content-Type"}

\* main.py:500 and main.py:581: the upstream headers that are copied
ForwardedKeys(path) ==
    IF path = "link"
    THEN {"Content-Range", "Content-Length", "Content-Type", "Last-Modified", "ETag"}
    ELSE {"Content-Range", "Content-Length", "Content-Type"}

ResponseKeys ==
    UpstreamKeys \cup {"Accept-Ranges", "Cache-Control", "Access-Control-Allow-Origin",
                       "X-Audio-Quality", "X-Audio-Format"}

\* main.py:519 and main.py:603: media_type=headers.get("Content-Type", default)
MediaType(path, answer) ==
    IF answer.headers["Content-Type"] # NoHeader THEN answer.headers["Content-Type"]
    ELSE IF path = "link" THEN "audio/mpeg" ELSE "audio/flac"

(* main.py:495-502 and 574-587: resp_headers; StreamingResponse adds the   *)
(* media type as Content-Type when the headers have none.                  *)
ResponseHeaders(path, answer, hi_res) ==
    [k \in ResponseKeys |->
        IF k = "Accept-Ranges" THEN "bytes"
        ELSE IF k = "Cache-Control" THEN "public, max-age=3600"
        ELSE IF k = "Access-Control-Allow-Origin" THEN "*"
        ELSE IF k = "X-Audio-Quality" THEN (IF path = "resolved" /\ hi_res THEN "Hi-Res" ELSE NoHeader)
        ELSE IF k = "X-Audio-Format" THEN (IF path = "resolved" /\ hi_res THEN "FLAC" ELSE NoHeader)
        ELSE IF k \in ForwardedKeys(path) /\ HeaderSet(answer.headers[k]) THEN answer.headers[k]
        ELSE IF k = "Content-Type" THEN MediaType(path, answer)
        ELSE NoHeader]

NoResponse ==
    [kind |-> "none", status |-> 0, headers |-> [k \in ResponseKeys |-> NoHeader]]

\* StreamingResponse(response_iterator(), status_code=..., headers=resp_headers)
StreamingResponse(path, answer, hi_res) ==
    [kind |-> "stream", status |-> answer.status,
     headers |-> ResponseHeaders(path, answer, hi_res)]

\* main.py:533-537: FileResponse(cache_path, media_type="audio/flac", ...)
FileResponse ==
    [kind |-> "file", status |-> 200,
     headers |-> [NoResponse.headers EXCEPT !["Accept-Ranges"] = "bytes",
                                             !["Cache-Control"] = "public, max-age=86400",
                                             !["Content-Type"] = "audio/flac"]]

\* raise HTTPException(status_code=...)
HTTPException(status) == [NoResponse EXCEPT !.kind = "error", !.status = status]

\* urls a LINK: reference can encode: the path and the query of each
Urls ==
    {[path |-> <<"/", "a", ".", "m", "p", "3">>, query |-> <<>>],
     [path |-> <<"/", "a", ".", "M", "P", "3">>, query |-> <<"v", "=", "a">>],
     [path |-> <<"/", "w">>, query |-> <<"f", "=", ".", "m", "p", "3">>],
     [path |-> <<"/", "w">>, query |-> <<>>]}

\* the page of a ytm_ reference
YoutubeUrl == [path |-> <<"/", "w">>, query |-> <<"v", "=", "a">>]

\* a LINK: reference: whether base64.urlsafe_b64decode(...).decode() succeeds, and the url
NoRef == [decodes |-> FALSE, url |-> YoutubeUrl]

LinkRefs == [decodes : {TRUE}, url : Urls] \cup {NoRef}

\* str.lower(), for the letters of the model
LowerChar(c) == IF c = "M" THEN "m" ELSE IF c = "P" THEN "p" ELSE c

Lower(str) == [i \in DOMAIN str |-> LowerChar(str[i])]

EndsWith(str, suffix) ==
    /\ Len(str) >= Len(suffix)
    /\ SubSeq(str, Len(str) - Len(suffix) + 1, Len(str)) = suffix

audio_exts ==
    {<<".", "m", "p", "3">>, <<".", "m", "4", "a">>, <<".", "o", "g", "g">>,
     <<".", "w", "a", "v">>, <<".", "a", "a", "c">>, <<".", "o", "p", "u", "s">>,
     <<".", "f", "l", "a", "c">>}

\* an extension test on the whole url, query included
HasAudioExtAnywhere(url) ==
    \E ext \in audio_exts : EndsWith(Lower(url.path \o <<"?">> \o url.query), ext)

\* any(parsed.path.lower().endswith(ext) for ext in audio_exts)
IsDirectAudio(url) == \E ext \in audio_exts : EndsWith(Lower(url.path), ext)

\* what yt-dlp makes of a page: a stream url, nothing, or a playlist without entries
Inspections == {"url", "None", "raised"}

(* AudioService._get_stream_url: the url itself for an audio file, else    *)
(* the cached or extracted stream url, None, or IndexError                 *)
get_stream_url(url, inspection) ==
    IF IsDirectAudio(url) THEN "original_url"
    ELSE IF inspection = "url" THEN "inspected_url"
    ELSE inspection

\* main.py:405-425: target_stream_url of a LINK: reference
LinkTarget(ref, inspection) ==
    IF ~ref.decodes THEN "none"
    ELSE IF IsDirectAudio(ref.url) THEN "original_url"
    ELSE IF get_stream_url(ref.url, inspection) \in {"None", "raised"} THEN "none"
    ELSE get_stream_url(ref.url, inspection)

IdleRequest ==
    [pc |-> "idle", kind |-> "track", ref |-> NoRef, target |-> "none",
     range |-> NoHeader, path |-> "none",
     sent |-> NoHeader, up |-> NoAnswer, hi_res |-> FALSE, response |-> NoResponse,
     link_client |-> "none", client |-> "none", upstream_resp |-> "none",
     iterator |-> "none", chunks |-> 0, events |-> <<>>, log |-> {}, outcome |-> "none"]

Event(r, e) == [r EXCEPT !.events = Append(@, e)]

Logged(r, message) == [r EXCEPT !.log = @ \cup {message}]

\* the handler at main.py:632-634: log, raise HTTPException(500)
GiveUp(r) ==
    [Logged(r, "Stream error") EXCEPT
        !.pc = "finished", !.response = HTTPException(500), !.outcome = "failed"]

\* a proxy that gives up on every failed send
SendFailedGiveUp(r, path) ==
    GiveUp(Event(r, IF path = "link" THEN "link_proxy_failed" ELSE "resolved_proxy_failed"))

(* client.send raised.  main.py:522-524 logs and falls through to the      *)
(* standard path, leaving its client as it is; main.py:606-608 closes the  *)
(* client and re-raises.                                                   *)
SendFailed(r, path) ==
    IF path = "link"
    THEN [Logged(Event(r, "link_proxy_failed"), "Proxying stream failed") EXCEPT
             !.pc = "cache_check", !.path = "none", !.sent = NoHeader]
    ELSE GiveUp([Event(r, "resolved_proxy_failed") EXCEPT !.client = "closed"])

(* main.py:390-435: a LINK: or ytm_ reference is resolved to a stream url  *)
(* (or not); with a url the proxy creates its client (main.py:490).  An    *)
(* exception of the ytm_ branch reaches the handler at main.py:632-634.    *)
stream_audio_begin ==
    /\ req.pc = "idle"
    /\ \E kind \in {"link", "ytm", "track"}, range \in RangeValues :
        \E inspection \in Inspections, ref \in (IF kind = "link" THEN LinkRefs ELSE {NoRef}) :
         LET target == IF kind = "link" THEN LinkTarget(ref, inspection)
                       ELSE IF kind = "ytm" THEN get_stream_url(YoutubeUrl, inspection)
                       ELSE "none"
             r == [IdleRequest EXCEPT !.kind = kind, !.range = range,
                                      !.ref = IF kind = "link" THEN ref ELSE NoRef,
                                      !.target = IF target \in {"None", "raised"} THEN "none"
                                                 ELSE target]
         IN  req' = IF target = "raised" THEN GiveUp(r)
                    ELSE IF target \in {"original_url", "inspected_url"}
                    THEN [r EXCEPT !.pc = "link_send", !.path = "link",
                                   !.sent = RequestHeaders(range), !.link_client = "open"]
                    ELSE [r EXCEPT !.pc = "cache_check"]
    /\ UNCHANGED <<pathVars, cacheVars, resolveVars, endpointVars, serviceVars>>

\* main.py:491-521 and 522-524
link_proxy_send ==
    /\ req.pc = "link_send"
    /\ \/ \E answer \in UpstreamAnswers :
            req' = [req EXCEPT !.pc = "responding", !.up = answer,
                               !.upstream_resp = "open", !.iterator = "created",
                               !.response = StreamingResponse("link", answer, FALSE)]
       \/ req' = SendFailed(req, "link")
    /\ UNCHANGED <<pathVars, cacheVars, resolveVars, endpointVars, serviceVars>>

\* main.py:527-540: is_cached(isrc, "flac")
stream_audio_cache_check ==
    /\ req.pc = "cache_check"
    /\ \E cached \in BOOLEAN :
         LET r == Event(req, "cache_lookup")
         IN  req' = IF cached
                    THEN [r EXCEPT !.pc = "finished", !.response = FileResponse,
                                   !.outcome = "served"]
                    ELSE [r EXCEPT !.pc = "fetch"]
    /\ UNCHANGED <<pathVars, cacheVars, resolveVars, endpointVars, serviceVars>>

(* main.py:547-568: fetch_flac returns None (404), raises (500, main.py:   *)
(* 632-634) or returns a url, for which the proxy creates its client.      *)
stream_audio_fetch ==
    /\ req.pc = "fetch"
    /\ \E result \in {"None", "raised", "url"}, hi \in BOOLEAN :
         LET r == Event(req, "fetch_flac")
         IN  req' = IF result = "None"
                    THEN [r EXCEPT !.pc = "finished", !.response = HTTPException(404),
                                   !.outcome = "failed"]
                    ELSE IF result = "raised" THEN GiveUp(r)
                    ELSE [r EXCEPT !.pc = "resolved_send", !.path = "resolved",
                                   !.hi_res = hi, !.sent = RequestHeaders(req.range),
                                   !.client = "open"]
    /\ UNCHANGED <<pathVars, cacheVars, resolveVars, endpointVars, serviceVars>>

\* main.py:569-608
resolved_proxy_send ==
    /\ req.pc = "resolved_send"
    /\ \/ \E answer \in UpstreamAnswers :
            req' = [req EXCEPT !.pc = "responding", !.up = answer,
                               !.upstream_resp = "open", !.iterator = "created",
                               !.response = StreamingResponse("resolved", answer, req.hi_res)]
       \/ req' = SendFailed(req, "resolved")
    /\ UNCHANGED <<pathVars, cacheVars, resolveVars, endpointVars, serviceVars>>

(* The server sends the status and the headers of the StreamingResponse    *)
(* and starts to iterate response_iterator(); when the inbound client is   *)
(* gone by then, the iterator is dropped without having been started, and  *)
(* an async generator that never ran does not run its finally block.       *)
serve_response ==
    /\ req.pc = "responding"
    /\ \E connected \in BOOLEAN :
         req' = IF connected
                THEN [Event(req, "headers_sent") EXCEPT !.pc = "streaming", !.iterator = "running"]
                ELSE [Event(req, "client_gone") EXCEPT !.pc = "finished", !.outcome = "client_gone"]
    /\ UNCHANGED <<pathVars, cacheVars, resolveVars, endpointVars, serviceVars>>

\* main.py:512-514 and 596-598: finally: await r.aclose(); await client.aclose()
CloseIterator(r) ==
    [r EXCEPT !.iterator = "closed",
              !.upstream_resp = "closed",
              !.link_client = IF r.path = "link" THEN "closed" ELSE @,
              !.client = IF r.path = "resolved" THEN "closed" ELSE @]

\* main.py:507-508 and 592-593: a chunk of the upstream body is yielded
stream_chunk ==
    /\ req.pc = "streaming"
    /\ req.chunks < MaxChunks
    /\ req' = [req EXCEPT !.chunks = @ + 1]
    /\ UNCHANGED <<pathVars, cacheVars, resolveVars, endpointVars, serviceVars>>

\* the upstream body ends
stream_end ==
    /\ req.pc = "streaming"
    /\ req' = [CloseIterator(Event(req, "body_end")) EXCEPT
                  !.pc = "finished", !.outcome = "served"]
    /\ UNCHANGED <<pathVars, cacheVars, resolveVars, endpointVars, serviceVars>>

\* main.py:509-510 and 594-595: the upstream read raises
stream_upstream_error ==
    /\ req.pc = "streaming"
    /\ req' = [CloseIterator(Logged(Event(req, "upstream_failed"), "Stream iteration error"))
                  EXCEPT !.pc = "finished", !.outcome = "truncated"]
    /\ UNCHANGED <<pathVars, cacheVars, resolveVars, endpointVars, serviceVars>>

\* the inbound client disconnects while the iterator runs
stream_disconnect ==
    /\ req.pc = "streaming"
    /\ req' = [CloseIterator(Event(req, "client_gone")) EXCEPT
                  !.pc = "finished", !.outcome = "client_gone"]
    /\ UNCHANGED <<pathVars, cacheVars, resolveVars, endpointVars, serviceVars>>

StreamInit == req = IdleRequest

StreamNext ==
    \/ stream_audio_begin
    \/ link_proxy_send
    \/ stream_audio_cache_check
    \/ stream_audio_fetch
    \/ resolved_proxy_send
    \/ serve_response
    \/ stream_chunk
    \/ stream_end
    \/ stream_upstream_error
    \/ stream_disconnect

---------------------------------------------------------------------------
(* Downloads: get_download_audio, get_audio_stream, the encoder and the     *)
(* tagger (src/app/audio_service.py).  Audio bytes are sequences of blocks: *)
(* the container's signature, its tag blocks, its audio frames.             *)

FLAC_SIGNATURE == <<"f", "L", "a", "C">>

\* an audio frame of 16-bit samples, and one of 24-bit samples
FRAME == "frame"

FRAME_24 == "frame24"

TagBlocks == {"TITLE=old", "TITLE=new", "PICTURE=old", "PICTURE=new"}

\* what a stream url can deliver
Contents ==
    {  FLAC_SIGNATURE \o <<FRAME>>,
       FLAC_SIGNATURE \o <<"TITLE=old", FRAME>>,
       FLAC_SIGNATURE \o <<"TITLE=new", FRAME>>,
       FLAC_SIGNATURE \o <<"PICTURE=old", FRAME>>,
       FLAC_SIGNATURE \o <<FRAME_24>>,
       FLAC_SIGNATURE,
       <<"f", "L", FRAME>>,
       <<"ftyp", FRAME>>,
       <<>>  }

NoneValue == [type |-> "None", data |-> <<>>, http |-> FALSE]

StrValue(http) == [type |-> "str", data |-> <<>>, http |-> http]

BytesValue(d) == [type |-> "bytes", data |-> d, http |-> FALSE]

\* truthiness of an Optional[bytes]
NonEmpty(v) == v.type = "bytes" /\ v.data # <<>>

DownloadFormats == {"flac", "flac_24", "mp3", "mp3_128", "wav", "ogg"}

FORMAT_CONFIG(format) ==
    IF format = "flac"
    THEN [ext |-> ".flac", mime |-> "audio/flac", acodec |-> "flac", sample_fmt |-> "s16"]
    ELSE IF format = "flac_24"
    THEN [ext |-> ".flac", mime |-> "audio/flac", acodec |-> "flac", sample_fmt |-> "s32"]
    ELSE IF format = "wav"
    THEN [ext |-> ".wav", mime |-> "audio/wav", acodec |-> "pcm_s16le", sample_fmt |-> ""]
    ELSE IF format = "mp3_128"
    THEN [ext |-> ".mp3", mime |-> "audio/mpeg", acodec |-> "libmp3lame@128k", sample_fmt |-> ""]
    ELSE [ext |-> ".mp3", mime |-> "audio/mpeg", acodec |-> "libmp3lame@320k", sample_fmt |-> ""]

\* the default of transcode_to_mp3's bitrate argument
BITRATE == "libmp3lame@320k"

Signature(ext) ==
    IF ext = ".flac" THEN FLAC_SIGNATURE
    ELSE IF ext = ".wav" THEN <<"RIFF">>
    ELSE <<"ID3">>

Frames(d) == SelectSeq(d, LAMBDA b : b \in {FRAME, FRAME_24})

\* the frames as the encoder writes them under -sample_fmt
Resampled(frames, sample_fmt) ==
    [i \in DOMAIN frames |-> IF sample_fmt = "s16" THEN FRAME
                             ELSE IF sample_fmt = "s32" THEN FRAME_24
                             ELSE frames[i]]

Tags(d) == SelectSeq(d, LAMBDA b : b \in TagBlocks)

\* the metadata dict handed to the tagger; fetch_flac never returns an empty one
Metadatas == [title : {"", "new"}, art : BOOLEAN, empty : {FALSE}]

NoMetadata == [title |-> "", art |-> FALSE, empty |-> TRUE]

is_flac_source(v) ==
    v.type = "bytes" /\ Len(v.data) >= 4 /\ SubSeq(v.data, 1, 4) = FLAC_SIGNATURE

\* a target test that knows the 16-bit profile only
IsFlac16Target(format) == format = "flac"

is_flac_target(format) == format \in {"flac", "flac_24"}

\* mutagen opens the file: its signature, then at least the stream's frames
ParsesAs(d, sig) ==
    /\ Len(d) > Len(sig)
    /\ SubSeq(d, 1, Len(sig)) = sig
    /\ Frames(d) # <<>>

IsTitle(b) == b \in {"TITLE=old", "TITLE=new"}

IsPicture(b) == b \in {"PICTURE=old", "PICTURE=new"}

\* FLAC branch: clear_pictures, set the given fields, add the picture, save
TaggedFlac(d, metadata) ==
    LET kept == SelectSeq(Tags(d), LAMBDA b : ~IsPicture(b) /\ (metadata.title = "" \/ ~IsTitle(b)))
        title == IF metadata.title = "" THEN <<>> ELSE <<"TITLE=new">>
        picture == IF metadata.art THEN <<"PICTURE=new">> ELSE <<>>
    IN  FLAC_SIGNATURE \o kept \o title \o picture \o Frames(d)

\* MP3 branch: ID3 frames added to the file's tag
TaggedMp3(d, metadata) ==
    LET kept == SelectSeq(Tags(d), LAMBDA b : (~metadata.art \/ ~IsPicture(b))
                                              /\ (metadata.title = "" \/ ~IsTitle(b)))
        title == IF metadata.title = "" THEN <<>> ELSE <<"TITLE=new">>
        picture == IF metadata.art THEN <<"PICTURE=new">> ELSE <<>>
    IN  <<"ID3">> \o kept \o title \o picture \o Frames(d)

embed_metadata(audio_data, format, metadata) ==
    IF metadata.empty THEN audio_data
    ELSE IF format \in {"flac", "flac_24"}
    THEN IF ParsesAs(audio_data, FLAC_SIGNATURE) THEN TaggedFlac(audio_data, metadata)
         ELSE audio_data
    ELSE IF format \in {"mp3", "mp3_128"}
    THEN IF ParsesAs(audio_data, <<"ID3">>) THEN TaggedMp3(audio_data, metadata)
         ELSE audio_data
    ELSE audio_data

\* stderr of the encoder is logged up to this many characters
StderrLimit == 500

StderrLens == {0, StderrLimit, StderrLimit + 1}

Truncated(n) == IF n > StderrLimit THEN StderrLimit ELSE n

\* how one run of the encoder can end: its exit code, the length of its
\* stderr, whether it wrote anything to the output file
EncoderRuns == [returncode : {0, 1}, stderr : StderrLens, wrote : BOOLEAN]

\* one line of the encoder's history
Spawn(kind, acodec, logged) == [kind |-> kind, acodec |-> acodec, stderr |-> logged]

(* subprocess.Popen and communicate, as transcode_to_format and            *)
(* transcode_to_mp3 use them: the event, and the bytes returned            *)
EncoderEvent(present, input, acodec, run) ==
    IF ~present THEN Spawn("not_found", acodec, 0)
    ELSE IF input.type # "bytes" THEN Spawn("error", acodec, 0)
    ELSE IF run.returncode # 0 \/ Frames(input.data) = <<>>
    THEN Spawn("exit_nonzero", acodec, Truncated(run.stderr))
    ELSE Spawn("exit_zero", acodec, 0)

Encoded(d, ext, sample_fmt) ==
    Signature(ext) \o SelectSeq(Tags(d), LAMBDA b : ~IsPicture(b))
        \o Resampled(Frames(d), sample_fmt)

transcode_to_format(present, input, format, run) ==
    LET event == EncoderEvent(present, input, FORMAT_CONFIG(format).acodec, run)
    IN  IF event.kind # "exit_zero" THEN NoneValue
        ELSE IF run.wrote THEN BytesValue(Encoded(input.data, FORMAT_CONFIG(format).ext,
                                                  FORMAT_CONFIG(format).sample_fmt))
        ELSE BytesValue(<<>>)

transcode_to_mp3(present, input, run) ==
    LET event == EncoderEvent(present, input, BITRATE, run)
    IN  IF event.kind # "exit_zero" THEN NoneValue
        ELSE IF run.wrote THEN BytesValue(Encoded(input.data, ".mp3", ""))
        ELSE BytesValue(<<>>)

\* most encoder starts in one behaviour
MaxSpawns == 2

NoReturn == [value |-> NoneValue, ext |-> "", mime |-> ""]

IdleDownload ==
    [pc |-> "idle", op |-> "none", isrc |-> <<>>, format |-> "mp3", cached |-> FALSE,
     source |-> NoneValue, flac_data |-> NoneValue, metadata |-> NoMetadata,
     output |-> NoneValue, spawns |-> 0, returned |-> NoReturn]

\* the call returns None
ReturnNone(d) == [d EXCEPT !.pc = "done", !.returned = NoReturn]

get_download_audio_call ==
    /\ dl.pc \in {"idle", "done"}
    /\ Len(encoder.log) < MaxSpawns
    /\ \E isrc \in {<<"a">>, LINK_PREFIX \o <<"a">>}, format \in DownloadFormats,
          found \in BOOLEAN, http \in BOOLEAN, metadata \in Metadatas :
         LET d == [IdleDownload EXCEPT !.op = "get_download_audio", !.isrc = isrc,
                                       !.format = format]
         IN  dl' = IF StartsWith(isrc, LINK_PREFIX) \/ ~found THEN ReturnNone(d)
                   ELSE [d EXCEPT !.pc = "fetched", !.flac_data = StrValue(http),
                                  !.metadata = metadata]
    /\ UNCHANGED <<encoder, pathVars, cacheVars, resolveVars, streamVars, lookupVars, batchVars, serviceVars>>

\* metadata after the frontend's fields and the MusicBrainz lookup filled the gaps
Enriched(metadata, title, art) ==
    [metadata EXCEPT !.title = IF metadata.title = "" THEN title ELSE metadata.title,
                     !.art = metadata.art \/ art]

\* what the GET of the stream url can give
UrlAnswers == [status : {"raised", "non200"}, content : {<<>>}]
                 \cup [status : {"200"}, content : Contents]

(* get_download_audio from the download of the stream url to the           *)
(* MusicBrainz enrichment                                                  *)
get_download_audio_body ==
    /\ dl.pc = "fetched"
    /\ dl.op = "get_download_audio"
    /\ \E answer \in UrlAnswers, title \in {"", "new"}, art \in BOOLEAN :
         IF dl.flac_data.http /\ answer.status # "200"
         THEN dl' = ReturnNone(dl)
         ELSE LET data == IF dl.flac_data.http THEN BytesValue(answer.content)
                          ELSE dl.flac_data
              IN  dl' = [dl EXCEPT !.pc = "transcode", !.source = data, !.flac_data = data,
                                   !.metadata = Enriched(dl.metadata, title, art)]
    /\ UNCHANGED <<encoder, pathVars, cacheVars, resolveVars, streamVars, lookupVars, batchVars, serviceVars>>

get_download_audio_transcode ==
    /\ dl.pc = "transcode"
    /\ dl.op = "get_download_audio"
    /\ IF is_flac_source(dl.flac_data) /\ is_flac_target(dl.format)
       THEN /\ dl' = [dl EXCEPT !.pc = "embed", !.output = dl.flac_data]
            /\ UNCHANGED encoder
       ELSE \E run \in EncoderRuns :
              LET acodec == FORMAT_CONFIG(dl.format).acodec
                  out == transcode_to_format(encoder.present, dl.flac_data, dl.format, run)
              IN  /\ encoder' = [encoder EXCEPT !.log =
                         Append(@, EncoderEvent(encoder.present, dl.flac_data, acodec, run))]
                  /\ dl' = [dl EXCEPT !.pc = "embed", !.output = out, !.spawns = @ + 1]
    /\ UNCHANGED <<pathVars, cacheVars, resolveVars, streamVars, lookupVars, batchVars, serviceVars>>

get_download_audio_embed ==
    /\ dl.pc = "embed"
    /\ dl.op = "get_download_audio"
    /\ LET bypass == is_flac_source(dl.flac_data) /\ is_flac_target(dl.format)
           tag_format == IF bypass THEN "flac" ELSE dl.format
           config == FORMAT_CONFIG(dl.format)
       IN  dl' = IF NonEmpty(dl.output)
                 THEN [dl EXCEPT !.pc = "done",
                                 !.returned = [value |-> BytesValue(embed_metadata(dl.output.data,
                                                             tag_format, dl.metadata)),
                                               ext |-> config.ext, mime |-> config.mime]]
                 ELSE ReturnNone(dl)
    /\ UNCHANGED <<encoder, pathVars, cacheVars, resolveVars, streamVars, lookupVars, batchVars, serviceVars>>

\* the arguments get_audio_stream is called with in this model
StreamedKey == DefaultKey

(* get_audio_stream up to the return of fetch_flac: is_cached and          *)
(* get_cached_file for (isrc, "mp3"), then the resolver                    *)
get_audio_stream_call ==
    /\ dl.pc \in {"idle", "done"}
    /\ Len(encoder.log) < MaxSpawns
    /\ \E read_ok \in BOOLEAN, found \in BOOLEAN, http \in BOOLEAN, metadata \in Metadatas :
         LET p == cache_path(StreamedKey)
             hit == fs[p].present /\ st_size(fs[p]) > 0
             d == [IdleDownload EXCEPT !.op = "get_audio_stream", !.isrc = StreamedKey[1],
                                       !.format = "mp3", !.cached = hit]
         IN  /\ fs' = IF hit THEN [fs EXCEPT ![p].atime = now] ELSE fs
             /\ dl' = IF hit /\ read_ok
                      THEN [d EXCEPT !.pc = "done",
                                     !.returned = [NoReturn EXCEPT !.value = BytesValue(fs[p].data)]]
                      ELSE IF ~found THEN ReturnNone(d)
                      ELSE [d EXCEPT !.pc = "fetched", !.source = StrValue(http),
                                     !.flac_data = StrValue(http), !.metadata = metadata]
    /\ UNCHANGED <<encoder, now, ttl_seconds, max_bytes, writer, reader, sweep, sinceWrite,
                   pathVars, resolveVars, streamVars, lookupVars, batchVars, serviceVars>>

(* get_audio_stream from the transcode on: transcode_to_mp3 in the         *)
(* executor, cache_file when it returned bytes                             *)
get_audio_stream_transcode ==
    /\ dl.pc = "fetched"
    /\ dl.op = "get_audio_stream"
    /\ \E run \in EncoderRuns, write_ok \in BOOLEAN :
         LET p == cache_path(StreamedKey)
             mp3_data == transcode_to_mp3(encoder.present, dl.flac_data, run)
         IN  /\ encoder' = [encoder EXCEPT !.log =
                    Append(@, EncoderEvent(encoder.present, dl.flac_data, BITRATE, run))]
             /\ fs' = IF NonEmpty(mp3_data) /\ write_ok
                      THEN WriteAtStart(OpenForWrite(fs, p, now), p, mp3_data.data)
                      ELSE fs
             /\ dl' = [dl EXCEPT !.pc = "done", !.output = mp3_data, !.spawns = @ + 1,
                                 !.returned = [NoReturn EXCEPT !.value = mp3_data]]
    /\ UNCHANGED <<now, ttl_seconds, max_bytes, writer, reader, sweep, sinceWrite,
                   pathVars, resolveVars, streamVars, lookupVars, batchVars, serviceVars>>

DownloadInit ==
    /\ dl = IdleDownload
    /\ encoder \in [present : BOOLEAN, log : {<<>>}]

\* the downloads are at rest
DownloadIdle ==
    /\ dl = IdleDownload
    /\ encoder = [present |-> TRUE, log |-> <<>>]

DownloadNext ==
    \/ get_download_audio_call
    \/ get_download_audio_body
    \/ get_download_audio_transcode
    \/ get_download_audio_embed
    \/ get_audio_stream_call
    \/ get_audio_stream_transcode

---------------------------------------------------------------------------
(* The cache-lookup branch of stream_audio (src/app/main.py:532-540) *)

IdleHit == [pc |-> "idle", key |-> DefaultKey, outcome |-> "none", data |-> <<>>, at |-> 0]

(* is_cached(isrc, cache_ext) and, on a hit, return FileResponse(path).    *)
(* Both run on the event loop, so not inside a sweep.  On a miss the       *)
(* request goes on to fetch_flac.                                          *)
stream_audio_is_cached ==
    /\ lookup.pc # "returned"
    /\ sweep.pc # "scanned"
    /\ \E k \in CacheKeys :
         LET p == cache_path(k)
         IN  lookup' = IF fs[p].present /\ st_size(fs[p]) > 0
                    THEN [IdleHit EXCEPT !.pc = "returned", !.key = k]
                    ELSE [IdleHit EXCEPT !.key = k, !.outcome = "miss"]
    /\ UNCHANGED <<cacheVars, pathVars, resolveVars, streamVars, downloadVars, batchVars, serviceVars>>

(* The server sends the FileResponse: os.stat(path) in a worker thread,    *)
(* then the file's bytes.  A path that is gone by then is a RuntimeError   *)
(* of the response, which the client gets as a failed request.  Neither   *)
(* stream_audio nor FileResponse sets the access time; whether the read   *)
(* itself moves it is the mount's choice (noatime, relatime, strictatime). *)
file_response_send ==
    /\ lookup.pc = "returned"
    /\ \E os_atime \in BOOLEAN :
         LET p == cache_path(lookup.key)
         IN  /\ lookup' = IF fs[p].present
                          THEN [lookup EXCEPT !.pc = "sent", !.outcome = "hit",
                                              !.data = fs[p].data, !.at = now]
                          ELSE [lookup EXCEPT !.pc = "sent", !.outcome = "error"]
             /\ fs' = IF fs[p].present /\ os_atime THEN [fs EXCEPT ![p].atime = now] ELSE fs
    /\ UNCHANGED <<now, ttl_seconds, max_bytes, writer, reader, sweep, sinceWrite,
                   pathVars, resolveVars, streamVars, downloadVars, batchVars, serviceVars>>

LookupInit == lookup = IdleHit

\* the lookups of both readers, the sweep and the clock
LookupNext ==
    \/ stream_audio_is_cached
    \/ file_response_send
    \/ get_cached_file_touch
    \/ get_cached_file_read
    \/ cleanup_cache_scan
    \/ cleanup_cache_remove
    \/ Tick

---------------------------------------------------------------------------
(* download_batch (src/app/main.py:837-888).  File names are sequences of  *)
(* characters, so that the replacements and the " (n)" suffix are computed  *)
(* as the handler computes them.                                           *)

\* most tracks of one request
MaxTracks == 3

TrackNames == {<<"a">>, <<"a", "*">>, <<"a", " ", "(", "1", ")">>}

ARTIST == <<"b">>

\* what get_download_audio does for one item
ItemOutcomes == {"ok", "none", "raised"}

\* str(count)
Digits == <<"1", "2", "3", "4", "5", "6", "7", "8", "9">>

RECURSIVE Sanitized(_)
Sanitized(str) ==
    IF str = <<>> THEN <<>>
    ELSE IF Head(str) \in {"/", "\\", ":"} THEN <<"_">> \o Sanitized(Tail(str))
    ELSE IF Head(str) \in {"*", "?", "<", ">", "|"} THEN Sanitized(Tail(str))
    ELSE <<Head(str)>> \o Sanitized(Tail(str))

SafeName(artist, name) == Sanitized(artist \o <<" ", "-", " ">> \o name)

Numbered(safe, count, ext) == safe \o <<" ", "(", Digits[count], ")">> \o <<ext>>

\* the while loop over used_names
RECURSIVE Deduplicated(_, _, _, _, _)
Deduplicated(filename, safe, ext, count, used) ==
    IF filename \notin used THEN filename
    ELSE Deduplicated(Numbered(safe, count, ext), safe, ext, count + 1, used)

BatchRequests ==
    UNION {[tracks : [1..n -> ItemOutcomes], names : UNION {[1..m -> TrackNames] : m \in 0..n},
            artists : {[i \in 1..m |-> ARTIST] : m \in 0..n}, format : {"mp3", "flac"}]
           : n \in 0..MaxTracks}

NoRequest == [tracks |-> <<>>, names |-> <<>>, artists |-> <<>>, format |-> "mp3"]

IdleBatch ==
    [pc |-> "idle", request |-> NoRequest, i |-> 1, used_names |-> {}, zip_file |-> <<>>,
     attempted |-> <<>>, status |-> 0]

download_batch_begin ==
    /\ batch.pc = "idle"
    /\ \E request \in BatchRequests :
         batch' = [IdleBatch EXCEPT !.pc = "items", !.request = request]
    /\ UNCHANGED <<pathVars, cacheVars, resolveVars, streamVars, downloadVars, lookupVars, serviceVars>>

\* a handler that gives the whole batch up at the first failing item
StopAtFailure(b) == [b EXCEPT !.pc = "respond", !.attempted = Append(@, b.i)]

\* except Exception, or a falsy result: on to the next track
SkipItem(b) == [b EXCEPT !.i = @ + 1, !.attempted = Append(@, b.i)]

\* one turn of the loop over request.tracks
download_batch_item ==
    /\ batch.pc = "items"
    /\ batch.i <= Len(batch.request.tracks)
    /\ LET r == batch.request
           i == batch.i
       IN  IF i > Len(r.names) \/ i > Len(r.artists) \/ r.tracks[i] # "ok"
           THEN batch' = SkipItem(batch)
           ELSE LET ext == FORMAT_CONFIG(r.format).ext
                    safe == SafeName(r.artists[i], r.names[i])
                    filename == Deduplicated(safe \o <<ext>>, safe, ext, 1, batch.used_names)
                IN  batch' = [batch EXCEPT
                        !.i = @ + 1,
                        !.attempted = Append(@, i),
                        !.used_names = @ \cup {filename},
                        !.zip_file = Append(@, [filename |-> filename, item |-> i])]
    /\ UNCHANGED <<pathVars, cacheVars, resolveVars, streamVars, downloadVars, lookupVars, serviceVars>>

\* the loop is over
download_batch_close ==
    /\ batch.pc = "items"
    /\ batch.i > Len(batch.request.tracks)
    /\ batch' = [batch EXCEPT !.pc = "respond"]
    /\ UNCHANGED <<pathVars, cacheVars, resolveVars, streamVars, downloadVars, lookupVars, serviceVars>>

\* Response(content=zip_buffer.getvalue(), media_type="application/zip")
download_batch_respond ==
    /\ batch.pc = "respond"
    /\ batch' = [batch EXCEPT !.pc = "responded", !.status = 200]
    /\ UNCHANGED <<pathVars, cacheVars, resolveVars, streamVars, downloadVars, lookupVars, serviceVars>>

BatchInit == batch = IdleBatch

BatchNext ==
    \/ download_batch_begin
    \/ download_batch_item
    \/ download_batch_close
    \/ download_batch_respond

---------------------------------------------------------------------------
(* Concurrent calls of get_tidal_download_url                              *)
(* (src/app/audio_service.py:344-448, 559-578), one step per await         *)

Callers == {1, 2}

\* what the status feed can deliver: a list of healthy mirrors, or a failure
FeedOutcomes ==
    [kind : {"connection_error", "timeout", "malformed", "no_healthy"}, apis : {<<>>}]
        \cup [kind : {"event"}, apis : ApiLists]

IdleCall == [pc |-> "idle", feed |-> "none", order |-> <<>>, asked |-> <<>>, result |-> NoApi]

\* a refresh that empties the list when the feed fails
ListLostOnFailure(apis, outcome) == outcome.apis

\* audio_service.py:436-438: the list is replaced only by a non-empty new_apis
ListAfterIngest(apis, outcome) == IF outcome.apis # <<>> THEN outcome.apis ELSE apis

(* get_tidal_download_url up to the first await: update_tidal_apis tests   *)
(* _apis_updated and, when it is set, returns at once, and the caller      *)
(* builds apis_to_try                                                      *)
get_tidal_download_url_call(c) ==
    /\ mirror.call[c].pc = "idle"
    /\ mirror' = [mirror EXCEPT !.call[c] =
           IF apis_updated
           THEN [IdleCall EXCEPT !.pc = "trying", !.order = ApisToTry(TIDAL_APIS, working_api)]
           ELSE [IdleCall EXCEPT !.pc = "updating"]]
    /\ UNCHANGED <<TIDAL_APIS, working_api, apis_updated, fetch, selector,
                   pathVars, cacheVars, streamVars, endpointVars, besidesMirror>>

\* update_tidal_apis: the feed answers or fails
update_tidal_apis_ingest(c) ==
    /\ mirror.call[c].pc = "updating"
    /\ \E outcome \in FeedOutcomes :
         /\ TIDAL_APIS' = ListAfterIngest(TIDAL_APIS, outcome)
         /\ apis_updated' = (apis_updated \/ outcome.apis # <<>>)
         /\ mirror' = [mirror EXCEPT
                !.call[c].pc = "closing",
                !.call[c].feed = IF outcome.apis # <<>> THEN "replaced" ELSE outcome.kind,
                !.replacements = IF outcome.apis # <<>> THEN @ + 1 ELSE @]
    /\ UNCHANGED <<working_api, fetch, selector,
                   pathVars, cacheVars, streamVars, endpointVars, besidesMirror>>

\* the feed's client is closed, update_tidal_apis returns, apis_to_try is built
update_tidal_apis_return(c) ==
    /\ mirror.call[c].pc = "closing"
    /\ mirror' = [mirror EXCEPT !.call[c].pc = "trying",
                                !.call[c].order = ApisToTry(TIDAL_APIS, working_api)]
    /\ UNCHANGED <<TIDAL_APIS, working_api, apis_updated, fetch, selector,
                   pathVars, cacheVars, streamVars, endpointVars, besidesMirror>>

\* audio_service.py:385-404: working_api is set wherever a value is returned
WorkingAfterAnswer(working, api_url, out) == IF out # "fail" THEN api_url ELSE working

\* one turn of the loop over apis_to_try: get_tidal_download_url_from_api answers
get_tidal_download_url_attempt(c) ==
    /\ mirror.call[c].pc = "trying"
    /\ mirror.call[c].order # <<>>
    /\ \E out \in MirrorOutcomes :
         LET api_url == Head(mirror.call[c].order)
             truthy == out \in {"url", "non_string"}
         IN  /\ working_api' = WorkingAfterAnswer(working_api, api_url, out)
             /\ mirror' = [mirror EXCEPT
                    !.call[c].asked = Append(@, api_url),
                    !.call[c].order = IF truthy THEN <<>> ELSE Tail(@),
                    !.call[c].pc = IF truthy THEN "done" ELSE "trying",
                    !.call[c].result = IF truthy THEN api_url ELSE NoApi,
                    !.delivered = IF truthy THEN @ \cup {api_url} ELSE @,
                    !.last = [api |-> api_url, out |-> out, before |-> working_api]]
    /\ UNCHANGED <<TIDAL_APIS, apis_updated, fetch, selector,
                   pathVars, cacheVars, streamVars, endpointVars, besidesMirror>>

\* audio_service.py:577-578: all mirrors failed
get_tidal_download_url_none(c) ==
    /\ mirror.call[c].pc = "trying"
    /\ mirror.call[c].order = <<>>
    /\ mirror' = [mirror EXCEPT !.call[c].pc = "done"]
    /\ UNCHANGED <<TIDAL_APIS, working_api, apis_updated, fetch, selector,
                   pathVars, cacheVars, streamVars, endpointVars, besidesMirror>>

NoAttempt == [api |-> NoApi, out |-> "fail", before |-> NoApi]

MirrorInit ==
    mirror = [call |-> [c \in Callers |-> IdleCall], replacements |-> 0,
              delivered |-> {}, last |-> NoAttempt]

MirrorNext ==
    \E c \in Callers :
        \/ get_tidal_download_url_call(c)
        \/ update_tidal_apis_ingest(c)
        \/ update_tidal_apis_return(c)
        \/ get_tidal_download_url_attempt(c)
        \/ get_tidal_download_url_none(c)

---------------------------------------------------------------------------
(* The periodic sweep: periodic_cleanup and the listing loop of            *)
(* cleanup_cache (src/app/cache.py:88-135), started by lifespan            *)
(* (src/app/main.py:43-52)                                                 *)

SleepingTask == [pc |-> "sleeping", t |-> 0, entries |-> <<>>, files |-> <<>>, raised |-> "none"]

(* asyncio.sleep returns; cleanup_cache takes the time and CACHE_DIR's     *)
(* entries                                                                 *)
periodic_cleanup_wake ==
    /\ periodic.pc = "sleeping"
    /\ \E listing \in Listings({p \in CachePaths : fs[p].present}) :
         periodic' = [SleepingTask EXCEPT !.pc = "is_file", !.t = now, !.entries = listing]
    /\ UNCHANGED <<cacheVars, pathVars, resolveVars, streamVars, endpointVars, besidesPeriodic>>

\* cache.py:97: f.is_file() is False for an entry that is gone
cleanup_cache_is_file ==
    /\ periodic.pc = "is_file"
    /\ periodic.entries # <<>>
    /\ periodic' = IF fs[Head(periodic.entries)].present
                   THEN [periodic EXCEPT !.pc = "stat"]
                   ELSE [periodic EXCEPT !.entries = Tail(@)]
    /\ UNCHANGED <<cacheVars, pathVars, resolveVars, streamVars, endpointVars, besidesPeriodic>>

(* cache.py:98-103: f.stat() outside any try.  FileNotFoundError leaves    *)
(* cleanup_cache and periodic_cleanup's loop: the task is over.            *)
cleanup_cache_stat ==
    /\ periodic.pc = "stat"
    /\ LET f == Head(periodic.entries)
       IN  periodic' = IF fs[f].present
                       THEN [periodic EXCEPT !.pc = "is_file", !.entries = Tail(@),
                                             !.files = @ \o StatFiles(fs, <<f>>)]
                       ELSE [periodic EXCEPT !.pc = "ended", !.raised = "FileNotFoundError"]
    /\ UNCHANGED <<cacheVars, pathVars, resolveVars, streamVars, endpointVars, besidesPeriodic>>

\* cache.py:105-128, then back to the sleep of periodic_cleanup
cleanup_cache_phases ==
    /\ periodic.pc = "is_file"
    /\ periodic.entries = <<>>
    /\ \E failing \in SUBSET {periodic.files[i].path : i \in DOMAIN periodic.files} :
         fs' = RemovePhases(fs, periodic.files, periodic.t, failing).dir
    /\ periodic' = SleepingTask
    /\ UNCHANGED <<now, ttl_seconds, max_bytes, writer, reader, sweep, sinceWrite,
                   pathVars, resolveVars, streamVars, endpointVars, besidesPeriodic>>

(* a file of the cache directory is removed from outside the task: the     *)
(* sweep of another server process on the same directory                   *)
other_sweep_unlink ==
    /\ \E p \in CachePaths :
         /\ fs[p].present
         /\ fs' = Unlink(fs, p)
    /\ UNCHANGED <<now, ttl_seconds, max_bytes, writer, reader, sweep, sinceWrite, periodic,
                   pathVars, resolveVars, streamVars, endpointVars, besidesPeriodic>>

\* main.py:51: asyncio.create_task(periodic_cleanup(30))
PeriodicInit == periodic = SleepingTask

\* the steps of the task
PeriodicStep ==
    \/ periodic_cleanup_wake
    \/ cleanup_cache_is_file
    \/ cleanup_cache_stat
    \/ cleanup_cache_phases

PeriodicNext ==
    \/ PeriodicStep
    \/ other_sweep_unlink
    \/ cache_file_open
    \/ cache_file_write
    \/ Tick

---------------------------------------------------------------------------
(* get_cached_file on a cache directory that another server process      *)
(* sweeps too (src/app/cache.py:54-65): exists() and touch() are two        *)
(* system calls                                                            *)

\* cache.py:57: cache_path.exists()
get_cached_file_exists ==
    /\ reader.pc = "idle"
    /\ \E k \in CacheKeys :
         reader' = IF fs[cache_path(k)].present
                   THEN [pc |-> "checked", key |-> k, result |-> NoResult]
                   ELSE [pc |-> "idle", key |-> k, result |-> [kind |-> "miss", data |-> <<>>]]
    /\ writer' = RestWriter
    /\ sweep' = RestSweep
    /\ UNCHANGED <<fs, now, ttl_seconds, max_bytes, sinceWrite, pathVars, resolveVars,
                   streamVars, endpointVars, serviceVars>>

(* Path.touch(exist_ok=True): os.utime on the file and, when that fails    *)
(* because the file is not there, os.open with O_CREAT                     *)
Touched(dir, p, t) ==
    IF dir[p].present THEN [dir EXCEPT ![p].atime = t]
    ELSE [dir EXCEPT ![p] = [present |-> TRUE, data |-> <<>>, atime |-> t]]

\* cache.py:60: cache_path.touch()
get_cached_file_utime ==
    /\ reader.pc = "checked"
    /\ fs' = Touched(fs, cache_path(reader.key), now)
    /\ reader' = [reader EXCEPT !.pc = "touched"]
    /\ writer' = RestWriter
    /\ sweep' = RestSweep
    /\ UNCHANGED <<now, ttl_seconds, max_bytes, sinceWrite, pathVars, resolveVars,
                   streamVars, endpointVars, serviceVars>>

\* get_cached_file and cache_file beside the other process's sweep
SharedNext ==
    \/ get_cached_file_exists
    \/ get_cached_file_utime
    \/ get_cached_file_read
    \/ other_sweep_unlink
    \/ cache_file_open
    \/ cache_file_write
    \/ Tick

---------------------------------------------------------------------------
(* _get_stream_url called from worker threads on the class's              *)
(* _stream_url_cache (src/app/audio_service.py:236-278); one page url,     *)
(* one step per operation on the dict                                      *)

Threads == {1, 2}

\* the hour an entry is kept, in ticks of the clock
HourTicks == 1

NoEntry == [present |-> FALSE, stream_url |-> "none", expiry |-> 0]

NoUrl == [kind |-> "none", stream_url |-> "none", expiry |-> 0]

IdleThread == [pc |-> "idle", now |-> 0, result |-> NoUrl]

\* what _extract_info_safe gives for the page
Extractions == {"None", "info_with_url", "info_without_url", "no_entries"}

ThreadRaised(th, exception) == [th EXCEPT !.pc = "done", !.result = [NoUrl EXCEPT !.kind = exception]]

\* audio_service.py:251-253: now = time.time(); if url in self._stream_url_cache
get_stream_url_lookup(t) ==
    /\ resolved.thread[t].pc \in {"idle", "done"}
    /\ resolved' = [resolved EXCEPT !.thread[t] =
           [IdleThread EXCEPT !.now = now,
                              !.pc = IF resolved.entry.present THEN "found" ELSE "extract"]]
    /\ UNCHANGED <<cacheVars, pathVars, resolveVars, streamVars, endpointVars, besidesResolved>>

(* audio_service.py:254-257: the subscript raises KeyError when the key    *)
(* is gone; an entry that is not expired is returned                       *)
get_stream_url_read(t) ==
    /\ resolved.thread[t].pc = "found"
    /\ LET th == resolved.thread[t]
           e == resolved.entry
       IN  resolved' = [resolved EXCEPT !.thread[t] =
               IF ~e.present THEN ThreadRaised(th, "KeyError")
               ELSE IF th.now < e.expiry
               THEN [th EXCEPT !.pc = "done",
                               !.result = [kind |-> "cached", stream_url |-> e.stream_url,
                                           expiry |-> e.expiry]]
               ELSE [th EXCEPT !.pc = "expired"]]
    /\ UNCHANGED <<cacheVars, pathVars, resolveVars, streamVars, endpointVars, besidesResolved>>

\* audio_service.py:258-259: del self._stream_url_cache[url]
get_stream_url_del(t) ==
    /\ resolved.thread[t].pc = "expired"
    /\ resolved' = IF resolved.entry.present
                   THEN [resolved EXCEPT !.entry = NoEntry, !.thread[t].pc = "extract"]
                   ELSE [resolved EXCEPT !.thread[t] = ThreadRaised(@, "KeyError")]
    /\ UNCHANGED <<cacheVars, pathVars, resolveVars, streamVars, endpointVars, besidesResolved>>

(* audio_service.py:262-271: the extraction, info['entries'][0], and the   *)
(* store of a url for an hour from the call's now                          *)
get_stream_url_extract(t) ==
    /\ resolved.thread[t].pc = "extract"
    /\ \E info \in Extractions :
         LET th == resolved.thread[t]
         IN  resolved' =
               IF info = "no_entries"
               THEN [resolved EXCEPT !.thread[t] = ThreadRaised(th, "IndexError")]
               ELSE IF info = "info_with_url"
               THEN [resolved EXCEPT
                        !.entry = [present |-> TRUE, stream_url |-> "fresh",
                                   expiry |-> th.now + HourTicks],
                        !.thread[t] = [th EXCEPT !.pc = "done",
                                          !.result = [NoUrl EXCEPT !.kind = "fresh",
                                                                   !.stream_url = "fresh"]]]
               ELSE [resolved EXCEPT !.thread[t] =
                        [th EXCEPT !.pc = "done", !.result = [NoUrl EXCEPT !.kind = "None"]]]
    /\ UNCHANGED <<cacheVars, pathVars, resolveVars, streamVars, endpointVars, besidesResolved>>

\* audio_service.py:278
ResolvedInit == resolved = [entry |-> NoEntry, thread |-> [t \in Threads |-> IdleThread]]

ResolvedNext ==
    \/ \E t \in Threads :
          \/ get_stream_url_lookup(t)
          \/ get_stream_url_read(t)
          \/ get_stream_url_del(t)
          \/ get_stream_url_extract(t)
    \/ Tick

---------------------------------------------------------------------------
(* The temporary files of transcode_to_format and embed_metadata          *)
(* (src/app/audio_service.py:450-557, 980-1039), called in executor        *)
(* threads; NamedTemporaryFile gives every call a name of its own          *)

Workers == {1, 2}

tmp_name(w) == <<"tmp", w>>

\* the audio handed to the two functions
TmpInputs == {BytesValue(FLAC_SIGNATURE \o <<FRAME>>), BytesValue(<<"ftyp", FRAME>>), StrValue(TRUE)}

IdleWork ==
    [pc |-> "idle", op |-> "none", format |-> "mp3", input |-> NoneValue, metadata |-> NoMetadata,
     created |-> FALSE, outcome |-> "none", returned |-> NoneValue]

\* an exception handler that returns without removing the file
KeptOnException(files, path) == files

\* os.path.exists(path) and os.unlink(path) / os.remove(path)
RemovedIfExists(files, path) == files \ {path}

\* audio_service.py:980-990: the empty output file is created before the try
transcode_to_format_create(w) ==
    /\ tmp.work[w].pc = "idle"
    /\ \E format \in DownloadFormats, input \in TmpInputs :
         tmp' = [tmp EXCEPT
                    !.files = @ \cup {tmp_name(w)},
                    !.work[w] = [IdleWork EXCEPT !.pc = "created", !.op = "transcode_to_format",
                                                 !.format = format, !.input = input,
                                                 !.created = TRUE]]
    /\ UNCHANGED <<cacheVars, pathVars, resolveVars, streamVars, endpointVars, besidesTmp>>

(* audio_service.py:992-1039: the encoder runs (or is missing, or          *)
(* communicate raises); every return goes through the finally clause       *)
transcode_to_format_run(w) ==
    /\ tmp.work[w].pc = "created"
    /\ tmp.work[w].op = "transcode_to_format"
    /\ \E present \in BOOLEAN, run \in EncoderRuns, encoder_removed \in BOOLEAN :
         LET wk == tmp.work[w]
             event == EncoderEvent(present, wk.input, FORMAT_CONFIG(wk.format).acodec, run)
             left == IF event.kind \in {"exit_nonzero", "exit_zero"} /\ encoder_removed
                     THEN tmp.files \ {tmp_name(w)} ELSE tmp.files
             value == IF tmp_name(w) \in left
                      THEN transcode_to_format(present, wk.input, wk.format, run)
                      ELSE NoneValue
         IN  tmp' = [tmp EXCEPT
                        !.files = RemovedIfExists(left, tmp_name(w)),
                        !.work[w] = [wk EXCEPT !.pc = "returned", !.outcome = event.kind,
                                               !.returned = value]]
    /\ UNCHANGED <<cacheVars, pathVars, resolveVars, streamVars, endpointVars, besidesTmp>>

(* audio_service.py:450-475: without metadata the input is returned at     *)
(* once; else the temporary file is created and the audio written to it    *)
embed_metadata_create(w) ==
    /\ tmp.work[w].pc = "idle"
    /\ \E format \in DownloadFormats, input \in TmpInputs, metadata \in Metadatas \cup {NoMetadata} :
         LET wk == [IdleWork EXCEPT !.op = "embed_metadata", !.format = format,
                                    !.input = input, !.metadata = metadata]
         IN  tmp' = IF metadata.empty
                    THEN [tmp EXCEPT !.work[w] = [wk EXCEPT !.pc = "returned",
                                                            !.outcome = "no_metadata",
                                                            !.returned = input]]
                    ELSE [tmp EXCEPT !.files = @ \cup {tmp_name(w)},
                                     !.work[w] = [wk EXCEPT !.pc = "created", !.created = TRUE]]
    /\ UNCHANGED <<cacheVars, pathVars, resolveVars, streamVars, endpointVars, besidesTmp>>

\* the tagger raises for a str, and for a file it cannot parse
TaggingRaises(input, format) ==
    \/ input.type # "bytes"
    \/ format \in {"flac", "flac_24"} /\ ~ParsesAs(input.data, FLAC_SIGNATURE)
    \/ format \in {"mp3", "mp3_128"} /\ ~ParsesAs(input.data, <<"ID3">>)

(* audio_service.py:476-557: tagging, read back, os.remove; an exception   *)
(* goes to the handler, which removes the file and returns the input       *)
embed_metadata_tag(w) ==
    /\ tmp.work[w].pc = "created"
    /\ tmp.work[w].op = "embed_metadata"
    /\ \E read_ok \in BOOLEAN :
         LET wk == tmp.work[w]
             raised == TaggingRaises(wk.input, wk.format) \/ ~read_ok
         IN  tmp' = [tmp EXCEPT
                        !.files = RemovedIfExists(tmp.files, tmp_name(w)),
                        !.work[w] = [wk EXCEPT
                            !.pc = "returned",
                            !.outcome = IF raised THEN "tagging_exception" ELSE "tagged",
                            !.returned = IF raised THEN wk.input
                                         ELSE BytesValue(embed_metadata(wk.input.data, wk.format,
                                                                        wk.metadata))]]
    /\ UNCHANGED <<cacheVars, pathVars, resolveVars, streamVars, endpointVars, besidesTmp>>

TmpInit == tmp = [files |-> {}, work |-> [w \in Workers |-> IdleWork]]

TmpNext ==
    \E w \in Workers :
        \/ transcode_to_format_create(w)
        \/ transcode_to_format_run(w)
        \/ embed_metadata_create(w)
        \/ embed_metadata_tag(w)

---------------------------------------------------------------------------
(* Specifications: one per component, the other components at rest *)

\* the key function is idle
\* the services are at rest
ServicesIdle == MirrorInit /\ PeriodicInit /\ ResolvedInit /\ TmpInit

PathIdle ==
    /\ os_name = "posix"
    /\ keyA = DefaultKey
    /\ keyB = DefaultKey
    /\ pathA = NoPath
    /\ pathB = NoPath

\* the cache is empty and untouched
CacheIdle == CacheInit /\ ttl_seconds = 0 /\ max_bytes = 0

Keys == Ids \X Formats

PathInit ==
    /\ os_name \in {"posix", "nt"}
    /\ keyA \in Keys
    /\ keyB \in Keys
    /\ pathA = NoPath
    /\ pathB = NoPath
    /\ CacheIdle
    /\ ResolveInit
    /\ StreamInit
    /\ DownloadIdle
    /\ LookupInit
    /\ BatchInit
    /\ ServicesIdle

CallPathA ==
    /\ pathA = NoPath
    /\ pathA' = get_cache_path(keyA[1], keyA[2])
    /\ UNCHANGED <<os_name, keyA, keyB, pathB, cacheVars, resolveVars, streamVars, endpointVars, serviceVars>>

CallPathB ==
    /\ pathB = NoPath
    /\ pathB' = get_cache_path(keyB[1], keyB[2])
    /\ UNCHANGED <<os_name, keyA, keyB, pathA, cacheVars, resolveVars, streamVars, endpointVars, serviceVars>>

PathNext == CallPathA \/ CallPathB

\* two calls of get_cache_path
SpecPath == PathInit /\ [][PathNext]_vars

CacheSpecInit == PathIdle /\ CacheInit /\ ResolveInit /\ StreamInit /\ DownloadIdle /\ LookupInit /\ BatchInit /\ ServicesIdle

\* the cache operations, interleaved
SpecCache == CacheSpecInit /\ [][CacheNext]_vars

ResolveSpecInit == PathIdle /\ CacheIdle /\ ResolveInit /\ StreamInit /\ DownloadIdle /\ LookupInit /\ BatchInit /\ ServicesIdle

\* calls of fetch_flac, one after the other
SpecResolve == ResolveSpecInit /\ [][ResolveNext]_vars

StreamSpecInit == PathIdle /\ CacheIdle /\ ResolveInit /\ StreamInit /\ DownloadIdle /\ LookupInit /\ BatchInit /\ ServicesIdle

\* one request to /api/stream
SpecStream == StreamSpecInit /\ [][StreamNext]_vars

\* a cache that holds the streamed track already, or nothing
DownloadSpecInit ==
    /\ PathIdle
    /\ now = 0
    /\ ttl_seconds = 0
    /\ max_bytes = 0
    /\ writer = IdleWriter
    /\ reader = IdleReader
    /\ sweep = IdleSweep
    /\ sinceWrite = NoWrite
    /\ \E held \in {<<>>, <<"ID3", FRAME>>} :
         fs = [p \in CachePaths |-> IF held # <<>> /\ p = cache_path(StreamedKey)
                                    THEN [present |-> TRUE, data |-> held, atime |-> 0]
                                    ELSE NoFile]
    /\ ResolveInit
    /\ StreamInit
    /\ DownloadInit
    /\ LookupInit
    /\ BatchInit
    /\ ServicesIdle

\* calls of get_download_audio and get_audio_stream, one after the other
SpecDownload == DownloadSpecInit /\ [][DownloadNext]_vars

\* a cache that holds entries already, each complete
LookupSpecInit ==
    /\ PathIdle
    /\ fs \in [CachePaths -> {NoFile, [present |-> TRUE, data |-> <<1>>, atime |-> 0]}]
    /\ now = 0
    /\ ttl_seconds \in 0..MaxTtl
    /\ max_bytes \in 0..MaxBudget
    /\ writer = IdleWriter
    /\ reader = IdleReader
    /\ sweep = IdleSweep
    /\ sinceWrite = NoWrite
    /\ ResolveInit
    /\ StreamInit
    /\ DownloadIdle
    /\ LookupInit
    /\ BatchInit
    /\ ServicesIdle

\* cache lookups racing with the sweep
SpecLookup == LookupSpecInit /\ [][LookupNext]_vars

BatchSpecInit ==
    PathIdle /\ CacheIdle /\ ResolveInit /\ StreamInit /\ DownloadIdle /\ LookupInit /\ BatchInit /\ ServicesIdle

\* one request to /api/download-batch
SpecBatch == BatchSpecInit /\ [][BatchNext]_vars

MirrorSpecInit ==
    PathIdle /\ CacheIdle /\ ResolveInit /\ StreamInit /\ DownloadIdle /\ LookupInit /\ BatchInit
        /\ MirrorInit /\ PeriodicInit /\ ResolvedInit /\ TmpInit

\* two tasks in get_tidal_download_url at the same time
SpecMirror == MirrorSpecInit /\ [][MirrorNext]_vars

PeriodicSpecInit ==
    PathIdle /\ CacheInit /\ ResolveInit /\ StreamInit /\ DownloadIdle /\ LookupInit /\ BatchInit
        /\ ServicesIdle

(* the task beside writes, the clock and another process's sweep.  The     *)
(* event loop runs a task that is ready: weak fairness of the task's steps *)
SpecPeriodic == PeriodicSpecInit /\ [][PeriodicNext]_vars /\ WF_vars(PeriodicStep)

SharedSpecInit ==
    PathIdle /\ CacheInit /\ ResolveInit /\ StreamInit /\ DownloadIdle /\ LookupInit /\ BatchInit
        /\ ServicesIdle

\* one cache directory, two server processes
SpecShared == SharedSpecInit /\ [][SharedNext]_vars

ResolvedSpecInit ==
    PathIdle /\ CacheIdle /\ ResolveInit /\ StreamInit /\ DownloadIdle /\ LookupInit /\ BatchInit
        /\ ServicesIdle

\* two worker threads in _get_stream_url for one page url
SpecResolved == ResolvedSpecInit /\ [][ResolvedNext]_vars

TmpSpecInit ==
    PathIdle /\ CacheIdle /\ ResolveInit /\ StreamInit /\ DownloadIdle /\ LookupInit /\ BatchInit
        /\ ServicesIdle

\* two executor threads in transcode_to_format and embed_metadata
SpecTmp == TmpSpecInit /\ [][TmpNext]_vars

---------------------------------------------------------------------------
(* Claims about the key function, checked under SpecPath *)

(* C4: get_cache_path is injective: two distinct (id, format) pairs never  *)
(* get the same cache file path.                                           *)
C4_CachePathInjective ==
    (pathA # NoPath /\ pathB # NoPath /\ keyA # keyB) => pathA # pathB

(* C5: no id makes get_cache_path address a file outside the cache         *)
(* directory (every path it returns is a direct child of CACHE_DIR).       *)
C5_CachePathInsideCacheDir ==
    pathA # NoPath => (IsDirectChild(pathA) /\ InsideCacheDir(pathA))

---------------------------------------------------------------------------
(* Claims about the cache operations, checked under SpecCache *)

(* C3: when get_cached_file(id, format) returns and the last thing that    *)
(* happened to the cache before it was a cache_file(id, b, format) that    *)
(* returned True, it returns exactly the bytes b, for every key and every  *)
(* b (unless reading the file itself fails with an I/O error).             *)
C3_WriteThenReadRoundTrip ==
    (  /\ reader.pc = "idle"
       /\ reader.result.kind # "none"
       /\ sinceWrite.state = "written"
       /\ sinceWrite.key = reader.key )
    => \/ reader.result = [kind |-> "hit", data |-> sinceWrite.data]
       \/ reader.result.kind = "error"

\* a read returned the non-empty content the write before it had stored
C3_RoundTripHit ==
    /\ reader.pc = "idle"
    /\ sinceWrite.state = "written"
    /\ sinceWrite.key = reader.key
    /\ sinceWrite.data # <<>>
    /\ reader.result = [kind |-> "hit", data |-> sinceWrite.data]

C7_YoungRemovedOnlyOverBudget ==
    sweep.pc = "done" =>
        \A i \in DOMAIN sweep.log :
            LET e == sweep.log[i]
            IN  (e.ok /\ sweep.now - e.atime <= ttl_seconds)
                => /\ e.phase = "size"
                   /\ e.before > max_bytes
                   /\ sweep.listedTotal > max_bytes

\* the size phase removed an entry younger than the TTL
C7_YoungRemovedBySizePhase ==
    /\ sweep.pc = "done"
    /\ \E i \in DOMAIN sweep.log :
         /\ sweep.log[i].ok
         /\ sweep.log[i].phase = "size"
         /\ sweep.now - sweep.log[i].atime <= ttl_seconds

\* what the size phase removed, in the order of removal
RemovedForSize == SelectSeq(sweep.log, LAMBDA e : e.phase = "size" /\ e.ok)

\* the listed files no phase removed
Remaining == {i \in DOMAIN sweep.files :
                 \A k \in DOMAIN sweep.log : sweep.log[k].ok => sweep.log[k].path # sweep.files[i].path}

\* the listed files no phase tried to remove
Untouched == {i \in DOMAIN sweep.files :
                 \A k \in DOMAIN sweep.log : sweep.log[k].path # sweep.files[i].path}

\* the size phase removes in ascending last-access time, and only over budget
AscendingWhileOverBudget ==
    /\ \A k, l \in DOMAIN RemovedForSize :
          k < l => RemovedForSize[k].atime <= RemovedForSize[l].atime
    /\ \A k \in DOMAIN RemovedForSize : RemovedForSize[k].before > max_bytes

(* C19, as stated: the size phase of cleanup_cache removes entries in      *)
(* ascending last-access time and only while the running total exceeds the *)
(* maximum, so no entry removed for size was accessed later than an entry  *)
(* that remains.                                                           *)
C19_SizePhaseEvictsOldestFirst ==
    sweep.pc = "done" =>
        /\ AscendingWhileOverBudget
        /\ \A k \in DOMAIN RemovedForSize : \A i \in Remaining :
              RemovedForSize[k].atime <= sweep.files[i].atime

(* C19, amended: the size phase of cleanup_cache removes entries in        *)
(* ascending last-access time and only while the running total exceeds the *)
(* maximum, so no entry removed for size was accessed later than a listed  *)
(* entry that no phase tried to remove; an entry whose unlink failed       *)
(* remains whatever its last-access time.                                  *)
C19_SizePhaseEvictsOldestRemovable ==
    sweep.pc = "done" =>
        /\ AscendingWhileOverBudget
        /\ \A k \in DOMAIN RemovedForSize : \A i \in Untouched :
              RemovedForSize[k].atime <= sweep.files[i].atime

\* the size phase removed the older of two entries and stopped within budget
C19_OlderRemovedYoungerKept ==
    /\ sweep.pc = "done"
    /\ RemovedForSize # <<>>
    /\ \E i \in Untouched : sweep.files[i].atime > RemovedForSize[1].atime
    /\ sweep.total_size <= max_bytes

(* C20: a get_cached_file that runs while cache_file(key, b) is writing    *)
(* the same entry returns no entry, the previous complete content or the   *)
(* complete bytes b, never an empty or partly written entry.               *)
C20_ReaderSeesCompleteEntry ==
    (  /\ reader.pc = "idle"
       /\ reader.result.kind = "hit"
       /\ writer.pc = "opened"
       /\ writer.key = reader.key
       /\ writer.data # <<>> )
    => reader.result.data # <<>>

---------------------------------------------------------------------------
(* Claims about the resolver, checked under SpecResolve *)

Providers == {"dab", "tidal", "deezer"}

\* the priority order Dab, Tidal, Deezer
Rank(p) == IF p = "dab" THEN 1 ELSE IF p = "tidal" THEN 2 ELSE 3

\* which providers a call with this reference and query can use
Applies(r, p) ==
    IF p = "dab"
    THEN StartsWith(r.isrc, DAB_PREFIX) \/ r.query # <<>>
         \/ (r.isrc # <<>> /\ ~StartsWith(r.isrc, DZ_PREFIX))
    ELSE IF p = "tidal" THEN ~StartsWith(r.isrc, DZ_PREFIX)
    ELSE TRUE

\* the call that gives a provider's url came back with one
Succeeded(c) == c.step \in {"stream", "download"} /\ c.out = "ok"

\* in calls, provider q was tried before position j and every try failed
AttemptedAndFailed(calls, q, j) ==
    /\ \E i \in 1..(j - 1) : calls[i].provider = q
    /\ \A i \in 1..(j - 1) : calls[i].provider = q => ~Succeeded(calls[i])

MetaOf(p) ==
    IF p = "dab" THEN {"dab_track", "query"}
    ELSE IF p = "tidal" THEN {"tidal_track"} ELSE {"deezer_info"}

(* The priority order on a sequence of calls: no call to a provider after  *)
(* a call to a later one; a provider is called only after every earlier    *)
(* provider the reference can use was tried and failed; and a returned     *)
(* result has the url and the metadata of the provider called last.        *)
PriorityOrderHolds(r, calls) ==
    /\ \A i, j \in DOMAIN calls :
          i < j => Rank(calls[i].provider) <= Rank(calls[j].provider)
    /\ \A j \in DOMAIN calls : \A q \in Providers :
          (Rank(q) < Rank(calls[j].provider) /\ Applies(r, q))
          => AttemptedAndFailed(calls, q, j)
    /\ r.result.kind = "returned" =>
          /\ calls # <<>>
          /\ calls[Len(calls)].provider = r.result.url_from
          /\ Succeeded(calls[Len(calls)])
          /\ r.result.meta_from \in MetaOf(r.result.url_from)

\* the calls without the catalogue lookup that turns a dz_ id into an ISRC
ResolveAttempts(calls) == SelectSeq(calls, LAMBDA c : c.step # "dz_lookup")

(* C1, as stated: in every fetch_flac call the providers are contacted in  *)
(* the order Dab, Tidal, Deezer, each only after every earlier applicable  *)
(* provider was attempted and failed, and the result is the later          *)
(* provider's when an earlier one failed.                                  *)
C1_ProvidersContactedInPriorityOrder ==
    PriorityOrderHolds(fetch, fetch.calls)

(* C1, amended: apart from the Deezer catalogue lookup that a dz_          *)
(* reference needs first, in every fetch_flac call the providers are       *)
(* attempted in the order Dab, Tidal, Deezer, each only after every        *)
(* earlier applicable provider was attempted and failed, and a returned    *)
(* url and metadata are those of the provider attempted last.              *)
C1_ResolveAttemptsInPriorityOrder ==
    PriorityOrderHolds(fetch, ResolveAttempts(fetch.calls))

\* Dab timed out, Tidal was asked after it and its url and metadata returned
C1_TidalAfterDabTimeout ==
    /\ fetch.pc = "done"
    /\ fetch.result.kind = "returned"
    /\ fetch.result.url_from = "tidal"
    /\ fetch.result.meta_from = "tidal_track"
    /\ \E i \in DOMAIN fetch.calls :
         fetch.calls[i].provider = "dab" /\ fetch.calls[i].out = "timeout"

(* C2: whatever the providers answer (timeout, status other than 200,      *)
(* malformed payload), fetch_flac ends by returning a result or None,      *)
(* never by raising, and it returns None only after every provider the     *)
(* reference can use was attempted.                                        *)
C2_ProviderFailuresAreSoft ==
    fetch.pc = "done" =>
        /\ fetch.result.kind \in {"returned", "None"}
        /\ fetch.result.kind = "None" =>
              \A q \in Providers :
                  Applies(fetch, q) => \E i \in DOMAIN fetch.calls : fetch.calls[i].provider = q

(* C11, as stated: when the previous get_tidal_download_url call got its   *)
(* url from mirror M, the next call asks M before any other mirror,        *)
(* whatever happened to the mirror list in between.                        *)
C11_LastWorkingMirrorAskedFirst ==
    (selector.prev_winner # NoApi /\ selector.tried # <<>>)
    => selector.tried[1] = selector.prev_winner

(* C11, amended: when the previous get_tidal_download_url call got its url *)
(* from mirror M and M is in the mirror list the next call works with      *)
(* (the list as refreshed from the status feed, if it was), the next call  *)
(* asks M before any other mirror.                                         *)
C11_LastWorkingMirrorAskedFirstIfListed ==
    (  /\ selector.prev_winner # NoApi
       /\ selector.tried # <<>>
       /\ \E i \in DOMAIN TIDAL_APIS : TIDAL_APIS[i] = selector.prev_winner )
    => selector.tried[1] = selector.prev_winner

\* the mirror that answered last time was asked first although the list,
\* refreshed in between, names another mirror first
C11_PromotedAfterRefresh ==
    /\ selector.prev_winner # NoApi
    /\ selector.tried # <<>>
    /\ selector.tried[1] = selector.prev_winner
    /\ TIDAL_APIS # DefaultApis
    /\ TIDAL_APIS[1] # selector.prev_winner

(* C12: within one get_tidal_download_url call no mirror is asked twice,   *)
(* whatever mirror list the call works with.                               *)
C12_EachMirrorAskedAtMostOnce ==
    \A i, j \in DOMAIN selector.tried :
        selector.tried[i] = selector.tried[j] => i = j

---------------------------------------------------------------------------
(* Claims about the stream proxy, checked under SpecStream *)

(* C8: the proxy sends the inbound Range value upstream as it came (and    *)
(* none when the request has none), and its response has the upstream's    *)
(* status code and the upstream's Content-Range, Content-Length and        *)
(* Content-Type values, neither changed nor invented.                      *)
C8_ProxyForwardsRangeStatusHeaders ==
    req.response.kind = "stream" =>
        /\ req.sent = (IF req.range \in {NoHeader, ""} THEN NoHeader ELSE req.range)
        /\ req.response.status = req.up.status
        /\ \A k \in {"Content-Range", "Content-Length", "Content-Type"} :
              /\ req.up.headers[k] \notin {NoHeader, ""}
                    => req.response.headers[k] = req.up.headers[k]
              /\ (req.up.headers[k] = NoHeader /\ k # "Content-Type")
                    => req.response.headers[k] = NoHeader

\* Range bytes=100-199 answered by 206 with Content-Range bytes 100-199/1000
C8_RangeRequestRelayed ==
    /\ req.response.kind = "stream"
    /\ req.range = "bytes=100-199"
    /\ req.sent = "bytes=100-199"
    /\ req.up.status = 206
    /\ req.response.status = 206
    /\ req.response.headers["Content-Range"] = "bytes 100-199/1000"
    /\ req.response.headers["Content-Length"] = "100"

(* C9: when a request whose proxy received upstream response headers is    *)
(* over, the upstream response and the client the request created for it   *)
(* are closed, however the request ended.                                  *)
C9_UpstreamReleasedWhenRequestEnds ==
    (req.pc = "finished" /\ req.upstream_resp # "none")
    => /\ req.upstream_resp = "closed"
       /\ (IF req.path = "link" THEN req.link_client ELSE req.client) = "closed"

\* the request went on with the cache lookup right after event i
FellBack(i) ==
    IF i = Len(req.events) THEN req.pc = "cache_check"
    ELSE req.events[i + 1] = "cache_lookup"

\* event i is the end of the request: the failure was logged, nothing was retried
TerminalAndLogged(i) ==
    /\ i = Len(req.events)
    /\ req.pc = "finished"
    /\ req.outcome = "truncated"
    /\ req.response.kind = "stream"
    /\ "Stream iteration error" \in req.log

(* C10, as stated: a proxy failure before the upstream headers arrive      *)
(* makes the request fall back to the cache lookup and local fetch; a      *)
(* failure after the headers were sent ends the stream, is logged, and     *)
(* nothing more is attempted.                                              *)
C10_ProxyFailureFallsBackOrEnds ==
    \A i \in DOMAIN req.events :
        /\ req.events[i] \in {"link_proxy_failed", "resolved_proxy_failed"} => FellBack(i)
        /\ req.events[i] = "upstream_failed" => TerminalAndLogged(i)

(* C10, amended: a failure before the upstream headers arrive makes the    *)
(* request fall back to the cache lookup and local fetch when the proxied  *)
(* url came from a LINK: or ytm_ reference; when the url came from         *)
(* fetch_flac the client is closed and the request fails with status 500.  *)
(* A failure after the headers were sent ends the stream, is logged, and   *)
(* nothing more is attempted.                                              *)
C10_LinkProxyFallsBackResolvedProxyFails ==
    \A i \in DOMAIN req.events :
        /\ req.events[i] = "link_proxy_failed" => FellBack(i)
        /\ req.events[i] = "resolved_proxy_failed" =>
              /\ i = Len(req.events)
              /\ req.pc = "finished"
              /\ req.response = HTTPException(500)
              /\ req.client = "closed"
        /\ req.events[i] = "upstream_failed" => TerminalAndLogged(i)

\* the LINK proxy failed, the request fell back, and the fallback's stream
\* broke after its headers were sent
C10_FellBackThenStreamBroke ==
    /\ req.pc = "finished"
    /\ Len(req.events) > 1
    /\ req.events[1] = "link_proxy_failed"
    /\ req.events[2] = "cache_lookup"
    /\ req.events[Len(req.events)] = "upstream_failed"
    /\ "Stream iteration error" \in req.log

---------------------------------------------------------------------------
(* Claims about the downloads and the encoder, checked under SpecDownload *)

\* a get_download_audio call that took the FLAC bypass has returned
BypassReturned ==
    /\ dl.pc = "done"
    /\ dl.op = "get_download_audio"
    /\ is_flac_source(dl.source)
    /\ dl.format \in {"flac", "flac_24"}

C14_MissingEncoderReportedOnceNotRetried ==
    \A i \in DOMAIN encoder.log :
        /\ encoder.log[i].kind = "exit_nonzero" => encoder.log[i].stderr <= StderrLimit
        /\ encoder.log[i].kind = "not_found" => i = Len(encoder.log)

(* C15: a get_audio_stream call that found no cache entry for the id and   *)
(* whose resolution succeeded ends with a non-empty body, a cache entry    *)
(* under the key of (id, "mp3"), and the encoder started with the default  *)
(* mp3 profile.                                                            *)
C15_ResolvedStreamIsCachedAndServed ==
    (  /\ dl.pc = "done"
       /\ dl.op = "get_audio_stream"
       /\ ~dl.cached
       /\ dl.source.type = "str" )
    => /\ NonEmpty(dl.returned.value)
       /\ fs[cache_path(<<dl.isrc, mp3>>)].present
       /\ st_size(fs[cache_path(<<dl.isrc, mp3>>)]) > 0
       /\ encoder.log # <<>>
       /\ encoder.log[Len(encoder.log)].acodec = BITRATE

---------------------------------------------------------------------------
(* Claims about lookups racing with the sweep, checked under SpecLookup *)

(* C16: a cache lookup that races with cleanup_cache ends as a hit with    *)
(* the entry's complete content or as a miss, never as an error of the     *)
(* request: get_cached_file returns the bytes or None, and the cache-hit   *)
(* branch of stream_audio serves the file or goes on to the fetch.         *)
C16_LookupEndsAsHitOrMiss ==
    /\ reader.result.kind \in {"none", "miss", "gone", "error", "hit"}
    /\ reader.result.kind = "hit" => reader.result.data = <<1>>
    /\ lookup.outcome \in {"none", "miss", "hit"}
    /\ lookup.outcome = "hit" => lookup.data = <<1>>

---------------------------------------------------------------------------
(* Claims about the batch download, checked under SpecBatch *)

\* the items of the request whose download succeeded, in request order
Delivered(r) ==
    SelectSeq([i \in DOMAIN r.tracks |-> i],
              LAMBDA i : r.tracks[i] = "ok" /\ i <= Len(r.names) /\ i <= Len(r.artists))

(* C17: in a batch download a failing item (no result, an exception, no    *)
(* name or artist at its index) is skipped alone: every item of the        *)
(* request is attempted, in request order, and the archive holds exactly   *)
(* one entry, under a name of its own, for each item that succeeded.       *)
C17_FailedItemSkippedAlone ==
    batch.pc = "responded" =>
        /\ batch.status = 200
        /\ batch.attempted = [i \in DOMAIN batch.request.tracks |-> i]
        /\ [k \in DOMAIN batch.zip_file |-> batch.zip_file[k].item] = Delivered(batch.request)
        /\ \A k, l \in DOMAIN batch.zip_file :
              batch.zip_file[k].filename = batch.zip_file[l].filename => k = l

\* an item in the middle failed, the items around it share a name, both are in the archive
C17_MiddleItemFailed ==
    /\ batch.pc = "responded"
    /\ Len(batch.request.tracks) = 3
    /\ batch.request.tracks[2] # "ok"
    /\ Len(batch.zip_file) = 2
    /\ batch.request.names[1] = batch.request.names[3]

---------------------------------------------------------------------------
(* Claims about LINK: references, checked under SpecStream *)

\* the urls of the model whose path names an audio file
PlayableFile(url) == url.path \in {<<"/", "a", ".", "m", "p", "3">>, <<"/", "a", ".", "M", "P", "3">>}

ProvidersTried == \E i \in DOMAIN req.events : req.events[i] = "fetch_flac"

LinkProxyFailed == \E i \in DOMAIN req.events : req.events[i] = "link_proxy_failed"

(* C18, as stated: for a LINK: reference the stream target is the decoded  *)
(* url itself when it is a directly playable audio file and otherwise the  *)
(* url the inspection returned, and fetch_flac (Dab, Tidal, Deezer) is not *)
(* called for that reference.                                              *)
C18_LinkNeverReachesProviders ==
    req.kind = "link" =>
        /\ req.ref.decodes /\ PlayableFile(req.ref.url) => req.target = "original_url"
        /\ req.ref.decodes /\ ~PlayableFile(req.ref.url) => req.target \in {"inspected_url", "none"}
        /\ ~ProvidersTried

(* C18, amended: for a LINK: reference that decodes, the stream target is  *)
(* the decoded url itself when its path names an audio file and otherwise  *)
(* the url the inspection returned; fetch_flac is called for the reference *)
(* only when there is no target (the reference does not decode, the        *)
(* inspection gave no url) or when the proxy's request to the target       *)
(* failed before the response headers.                                     *)
C18_LinkReachesProvidersOnlyWithoutTarget ==
    req.kind = "link" =>
        /\ req.ref.decodes /\ PlayableFile(req.ref.url) => req.target = "original_url"
        /\ req.ref.decodes /\ ~PlayableFile(req.ref.url) => req.target \in {"inspected_url", "none"}
        /\ ~req.ref.decodes => req.target = "none"
        /\ ProvidersTried => req.target = "none" \/ LinkProxyFailed

\* a LINK: to a page was streamed from the inspected url, no provider tried
C18_InspectedLinkStreamed ==
    /\ req.kind = "link"
    /\ req.target = "inspected_url"
    /\ req.ref.url.query # <<>>
    /\ req.pc = "finished"
    /\ req.outcome = "served"
    /\ ~ProvidersTried

---------------------------------------------------------------------------
(* Claims about concurrent mirror calls, checked under SpecMirror *)

(* C21: over any interleaving of resolve calls in one process the mirror   *)
(* list is replaced from the status feed at most once.                     *)
C21_ListReplacedAtMostOnce == mirror.replacements <= 1

(* C22: when the ingestion of the status feed fails (connection error,     *)
(* timeout, malformed event, no healthy instance), update_tidal_apis       *)
(* leaves the mirror list as it was, and the call goes on with that list.  *)
C22_FailedIngestKeepsList ==
    [][\A c \in Callers :
          /\ (  /\ mirror.call[c].pc = "updating"
                /\ mirror'.call[c].pc = "closing"
                /\ mirror'.call[c].feed # "replaced" )
             => TIDAL_APIS' = TIDAL_APIS /\ TIDAL_APIS' # <<>>
          /\ (mirror.call[c].pc = "closing" /\ mirror'.call[c].pc = "trying")
             => /\ TIDAL_APIS' = TIDAL_APIS
                /\ \A i \in DOMAIN TIDAL_APIS :
                      \E j \in DOMAIN mirror'.call[c].order :
                          mirror'.call[c].order[j] = TIDAL_APIS[i]
                /\ Len(mirror'.call[c].order) = Len(TIDAL_APIS)]_vars

\* a call whose feed timed out asked the mirrors of the list another call had installed
C22_CallWentOnAfterTimeout ==
    \E c \in Callers :
        /\ mirror.call[c].feed = "timeout"
        /\ mirror.call[c].pc = "done"
        /\ mirror.call[c].asked # <<>>
        /\ TIDAL_APIS # DefaultApis

(* C25: under any interleaving of resolve calls working_api is unset or a  *)
(* mirror that returned a download url in an earlier attempt; an attempt   *)
(* that fails leaves it unchanged.                                         *)
C25_WorkingApiDeliveredUrl ==
    /\ working_api = NoApi \/ working_api \in mirror.delivered
    /\ mirror.last.out \notin {"url", "non_string"} => working_api = mirror.last.before

---------------------------------------------------------------------------
(* Claims about the encoder bypass, checked under SpecDownload *)

\* the stream is FLAC with 24-bit samples
Is24BitFlac(v) == is_flac_source(v) /\ \E i \in DOMAIN v.data : v.data[i] = FRAME_24

(* C23: the encoder bypass is taken only for a source whose bit depth      *)
(* matches the requested FLAC profile: for a 24-bit FLAC source and the    *)
(* 16-bit "flac" target the encoder is invoked.                            *)
C23_BypassOnlyAtMatchingBitDepth ==
    (  /\ dl.op = "get_download_audio"
       /\ dl.pc \in {"embed", "done"}
       /\ Is24BitFlac(dl.source)
       /\ dl.format = "flac" )
    => /\ dl.spawns = 1
       /\ encoder.log # <<>>
       /\ encoder.log[Len(encoder.log)].acodec = FORMAT_CONFIG("flac").acodec

---------------------------------------------------------------------------
(* Claims about the access time of served entries, checked under SpecLookup *)

(* C24: every read of a cache entry sets the entry's last-access time to   *)
(* the time of the read, in get_cached_file and in the cache-hit branch    *)
(* of stream_audio alike.                                                  *)
C24_EveryServedReadSetsAccessTime ==
    [][/\ (reader.pc = "idle" /\ reader'.pc = "touched")
          => fs'[cache_path(reader'.key)].atime = now
       /\ (lookup.pc = "returned" /\ lookup'.outcome = "hit")
          => fs'[cache_path(lookup.key)].atime = now]_vars

---------------------------------------------------------------------------
(* Claims about the proxies' clients, checked under SpecStream *)

\* the resolved-url proxy's request failed before the response headers
ResolvedProxyFailed == \E i \in DOMAIN req.events : req.events[i] = "resolved_proxy_failed"

(* C26: a proxy request that fails before the response headers arrive      *)
(* leaves no open client behind, on the LINK/ytm proxy path and on the     *)
(* resolved-url proxy path.                                                *)
C26_FailedProxyRequestClosesClient ==
    /\ LinkProxyFailed => req.link_client # "open"
    /\ ResolvedProxyFailed => req.client # "open"

---------------------------------------------------------------------------
(* Claims about the periodic sweep, checked under SpecPeriodic *)

(* C27: the periodic sweep keeps running for the life of the process:      *)
(* cleanup_cache is started again and again, also after a sweep in which   *)
(* a file disappeared between the listing and its stat.                    *)
C27_SweepRunsAgainAndAgain == []<>(periodic.pc = "is_file")

---------------------------------------------------------------------------
(* Claims about reads of a shared cache directory, checked under SpecShared *)

(* C28: a cache read never creates an entry: the access-time update of     *)
(* get_cached_file adds no file to the cache directory, also when the      *)
(* entry was removed between the existence check and the update.           *)
C28_ReadNeverCreatesEntry ==
    [][(reader.pc = "checked" /\ reader'.pc = "touched")
          => \A p \in CachePaths : fs'[p].present => fs[p].present]_vars

---------------------------------------------------------------------------
(* Claims about the stream-url cache, checked under SpecResolved *)

(* C29: in every interleaving of concurrent _get_stream_url calls each     *)
(* call completes without raising and returns a cached url whose expiry    *)
(* is after the call's lookup time, a freshly extracted url, or None.      *)
C29_ConcurrentLookupsNeverRaise ==
    \A t \in Threads :
        LET th == resolved.thread[t]
        IN  /\ th.result.kind \in {"none", "cached", "fresh", "None"}
            /\ th.result.kind = "cached" => th.now < th.result.expiry

---------------------------------------------------------------------------
(* Claims about temporary files, checked under SpecTmp *)

===========================================================================
